---- MODULE Spec2Model ----
(***************************************************************************)
(* Model of the proof-to-transaction adapter of zkfetch-stellar-example:   *)
(* the utility functions getRecId, formatSignature, getSerializedClaim and *)
(* getHash (src/src/requestProof.js, the utils.js part) and                *)
(* prepareProofData (src/src/verifyProof.js), and the entry points built   *)
(* on them: requestProof, both definitions of verifyProof,                 *)
(* runCompleteWorkflow and the three command lines.                        *)
(*                                                                         *)
(* A JavaScript string is a sequence of UTF-16 code units; a code unit is  *)
(* written as a one-character TLA+ string, or as "U+XXXX" when it is not   *)
(* printable ASCII.  A JavaScript value is a record tagged by its type.    *)
(***************************************************************************)
EXTENDS Integers, Sequences, FiniteSets, TLC

VARIABLES pc, op, arg, result, keccakCalls,
          entry, files, log, rq, vf, wf, cli

\* the state of the entry points (requestProof, verifyProof, the workflow and
\* the command lines); the utility functions leave it alone
appVars == <<entry, files, log, rq, vf, wf, cli>>

vars == <<pc, op, arg, result, keccakCalls, entry, files, log, rq, vf, wf, cli>>

----------------------------------------------------------------------------
(* Bounds of the model                                                     *)

MaxShortLen == 2
MaxTailLen == 2
MaxTextLen == 3
MaxEpoch == 2

----------------------------------------------------------------------------
(* Program constants                                                       *)

RecIdOffset == 27
MaxRecId == 3
MinRecIdLen == 2
MinSignatureLen == 130
SubstringStart == 1
SubstringEnd == 130
DigestPrefixLen == 2

----------------------------------------------------------------------------
(* JavaScript values                                                       *)

Undefined == [t |-> "undefined"]
Null == [t |-> "null"]
NaN == [t |-> "NaN"]
Str(s) == [t |-> "string", s |-> s]
Num(n) == [t |-> "number", n |-> n]
Arr(a) == [t |-> "array", a |-> a]
Obj(f) == [t |-> "object", f |-> f]
Buf(b) == [t |-> "buffer", b |-> b]

\* typeof v
Typeof(v) ==
  CASE v.t = "undefined" -> "undefined"
    [] v.t = "string" -> "string"
    [] v.t \in {"number", "NaN"} -> "number"
    [] OTHER -> "object"

\* !v is false
Truthy(v) ==
  CASE v.t \in {"undefined", "null", "NaN"} -> FALSE
    [] v.t = "string" -> Len(v.s) > 0
    [] v.t = "number" -> v.n # 0
    [] OTHER -> TRUE

Return(v) == [kind |-> "return", val |-> v]
Throw(m) == [kind |-> "throw", msg |-> m]

\* v.field, as an outcome: a TypeError on undefined and null
Get(v, field) ==
  IF v.t \in {"undefined", "null"}
  THEN Throw(<<"Cannot read properties of ", v.t, " (reading '", field, "')">>)
  ELSE IF v.t = "object" /\ field \in DOMAIN v.f
       THEN Return(v.f[field])
       ELSE Return(Undefined)

\* v[0], as an outcome
Index0(v) ==
  IF v.t \in {"undefined", "null"}
  THEN Throw(<<"Cannot read properties of ", v.t, " (reading '0')">>)
  ELSE IF v.t = "array" /\ Len(v.a) > 0 THEN Return(v.a[1])
  ELSE IF v.t = "string" /\ Len(v.s) > 0 THEN Return(Str(<<v.s[1]>>))
  ELSE Return(Undefined)

----------------------------------------------------------------------------
(* Characters, numbers and bytes                                           *)

HexChars == <<"0", "1", "2", "3", "4", "5", "6", "7",
              "8", "9", "a", "b", "c", "d", "e", "f">>

UpperHexChars == <<"A", "B", "C", "D", "E", "F">>

\* the value of a hexadecimal digit, -1 for any other code unit
HexVal(c) ==
  IF \E i \in 1..16 : HexChars[i] = c
  THEN (CHOOSE i \in 1..16 : HexChars[i] = c) - 1
  ELSE IF \E i \in 1..6 : UpperHexChars[i] = c
       THEN (CHOOSE i \in 1..6 : UpperHexChars[i] = c) + 9
       ELSE -1

IsHexDigit(c) == HexVal(c) >= 0

\* printable ASCII, code 32 to 126, in code order
AsciiChars ==
  <<" ", "!", "U+0022", "#", "$", "%", "&", "'", "(", ")", "*", "+", ",", "-",
    ".", "/", "0", "1", "2", "3", "4", "5", "6", "7", "8", "9", ":", ";",
    "<", "=", ">", "?", "@", "A", "B", "C", "D", "E", "F", "G", "H", "I",
    "J", "K", "L", "M", "N", "O", "P", "Q", "R", "S", "T", "U", "V", "W",
    "X", "Y", "Z", "[", "U+005C", "]", "^", "_", "U+0060", "a", "b", "c", "d", "e",
    "f", "g", "h", "i", "j", "k", "l", "m", "n", "o", "p", "q", "r", "s",
    "t", "u", "v", "w", "x", "y", "z", "{", "|", "}", "~">>

\* the code of a UTF-16 code unit
CharCode(c) ==
  CASE c = "\n" -> 10
    [] c = "U+0019" -> 25
    [] c = "U+00E9" -> 233
    [] c = "U+20AC" -> 8364
    [] OTHER -> 31 + (CHOOSE i \in 1..Len(AsciiChars) : AsciiChars[i] = c)

IsAscii(s) == \A i \in 1..Len(s) : CharCode(s[i]) < 128

\* Number-to-string of a non-negative integer
RECURSIVE DecimalNat(_)
DecimalNat(n) ==
  IF n < 10 THEN <<HexChars[n + 1]>>
  ELSE DecimalNat(n \div 10) \o <<HexChars[(n % 10) + 1]>>

\* Number-to-string of an integer
Decimal(n) == IF n < 0 THEN <<"-">> \o DecimalNat(0 - n) ELSE DecimalNat(n)

\* the string form a value takes when it is concatenated to a string
ToStr(v) ==
  CASE v.t = "string" -> v.s
    [] v.t = "number" -> Decimal(v.n)
    [] v.t = "NaN" -> <<"N", "a", "N">>
    [] v.t = "undefined" -> <<"u", "n", "d", "e", "f", "i", "n", "e", "d">>
    [] v.t = "null" -> <<"n", "u", "l", "l">>
    [] OTHER -> <<"[", "o", "b", "j", "e", "c", "t", " ",
                  "O", "b", "j", "e", "c", "t", "]">>

\* the UTF-8 encoding of one code unit of the basic plane
Utf8Char(c) ==
  LET code == CharCode(c) IN
  IF code < 128 THEN <<code>>
  ELSE IF code < 2048 THEN <<192 + (code \div 64), 128 + (code % 64)>>
  ELSE <<224 + (code \div 4096), 128 + ((code \div 64) % 64), 128 + (code % 64)>>

\* Buffer.from(string): the UTF-8 encoding of a string
RECURSIVE Utf8(_)
Utf8(s) ==
  IF Len(s) = 0 THEN <<>>
  ELSE IF Len(s) = 1 THEN Utf8Char(s[1])
  ELSE LET half == Len(s) \div 2
       IN Utf8(SubSeq(s, 1, half)) \o Utf8(SubSeq(s, half + 1, Len(s)))

\* Buffer.from(string, 'hex'): pairs of hex digits, cut at the first
\* pair that is not two hex digits; an odd last character is dropped
HexDecode(s) ==
  LET pairs == Len(s) \div 2
      bad == {i \in 1..pairs : ~(IsHexDigit(s[2 * i - 1]) /\ IsHexDigit(s[2 * i]))}
      n == IF bad = {} THEN pairs
           ELSE (CHOOSE i \in bad : \A j \in bad : i <= j) - 1
  IN [i \in 1..n |-> 16 * HexVal(s[2 * i - 1]) + HexVal(s[2 * i])]

\* String.prototype.substring(start, end) for 0 <= start <= end
Substring(s, start, end) ==
  LET lo == IF start > Len(s) THEN Len(s) ELSE start
      hi == IF end > Len(s) THEN Len(s) ELSE end
  IN SubSeq(s, lo + 1, hi)

\* String.prototype.slice(-n)
SliceLast(s, n) == IF Len(s) <= n THEN s ELSE SubSeq(s, Len(s) - n + 1, Len(s))

IsWhiteSpace(c) == c \in {" ", "\n"}

\* the value of the longest prefix of hex digits of s; NaN when it is empty
RECURSIVE HexPrefixValue(_, _)
HexPrefixValue(s, acc) ==
  IF s = <<>> \/ ~IsHexDigit(Head(s)) THEN acc
  ELSE HexPrefixValue(Tail(s), 16 * acc + HexVal(Head(s)))

RECURSIVE TrimStart(_)
TrimStart(s) ==
  IF s # <<>> /\ IsWhiteSpace(Head(s)) THEN TrimStart(Tail(s)) ELSE s

\* parseInt(s, 16)
ParseIntHex(s) ==
  LET t == TrimStart(s)
      neg == t # <<>> /\ Head(t) = "-"
      u == IF t # <<>> /\ Head(t) \in {"-", "+"} THEN Tail(t) ELSE t
      w == IF Len(u) >= 2 /\ u[1] = "0" /\ u[2] \in {"x", "X"}
           THEN SubSeq(u, 3, Len(u)) ELSE u
  IN IF w = <<>> \/ ~IsHexDigit(Head(w)) THEN NaN
     ELSE Num(IF neg THEN 0 - HexPrefixValue(w, 0) ELSE HexPrefixValue(w, 0))

----------------------------------------------------------------------------
(* utils.js, the validating definitions                                    *)

\* getRecId without the upper bound of the range check
getRecIdNoUpperBound(signature) ==
  IF ~Truthy(signature) \/ Typeof(signature) # "string"
  THEN Throw(<<"Signature must be a valid string">>)
  ELSE IF Len(signature.s) < MinRecIdLen
  THEN Throw(<<"Signature too short to contain recovery ID">>)
  ELSE LET rec == SliceLast(signature.s, 2)
           parsed == ParseIntHex(rec)
           recId == IF parsed.t = "NaN" THEN NaN ELSE Num(parsed.n - RecIdOffset)
       IN IF recId.t = "number" /\ recId.n < 0
          THEN Throw(<<"Invalid recovery ID: ">> \o Decimal(recId.n))
          ELSE Return(recId)

\* getRecId(signature)
getRecId(signature) ==
  IF ~Truthy(signature) \/ Typeof(signature) # "string"
  THEN Throw(<<"Signature must be a valid string">>)
  ELSE IF Len(signature.s) < MinRecIdLen
  THEN Throw(<<"Signature too short to contain recovery ID">>)
  ELSE LET rec == SliceLast(signature.s, 2)
           parsed == ParseIntHex(rec)
           \* NaN - 27 is NaN, and NaN < 0 and NaN > 3 are both false
           recId == IF parsed.t = "NaN" THEN NaN ELSE Num(parsed.n - RecIdOffset)
       IN IF recId.t = "number" /\ (recId.n < 0 \/ recId.n > MaxRecId)
          THEN Throw(<<"Invalid recovery ID: ">> \o Decimal(recId.n))
          ELSE Return(recId)

\* formatSignature(signature)
formatSignature(signature) ==
  IF ~Truthy(signature) \/ Typeof(signature) # "string"
  THEN Throw(<<"Signature must be a valid string">>)
  ELSE IF Len(signature.s) < MinSignatureLen
  THEN Throw(<<"Signature too short to be valid">>)
  ELSE Return(Str(Substring(signature.s, SubstringStart, SubstringEnd)))

RequiredFields == <<"identifier", "owner", "timestampS", "epoch">>

\* claim[field], undefined when the claim has no such member
Field(claim, field) ==
  IF claim.t = "object" /\ field \in DOMAIN claim.f
  THEN claim.f[field] ELSE Undefined

IsMissing(v) == v.t \in {"undefined", "null"}

\* getSerializedClaim with a separator after the last field
getSerializedClaimTrailingSeparator(proof) ==
  IF ~Truthy(proof)
     \/ ~Truthy(Get(proof, "signedClaim").val)
     \/ ~Truthy(Get(Get(proof, "signedClaim").val, "claim").val)
  THEN Throw(<<"Invalid proof structure: missing signedClaim.claim">>)
  ELSE LET claim == Get(Get(proof, "signedClaim").val, "claim").val
           missing == {i \in 1..Len(RequiredFields) :
                         IsMissing(Field(claim, RequiredFields[i]))}
       IN IF missing # {}
          THEN LET first == CHOOSE i \in missing : \A j \in missing : i <= j
               IN Throw(<<"Missing required claim field: ", RequiredFields[first]>>)
          ELSE Return(Str(ToStr(Field(claim, "identifier")) \o <<"\n">>
                          \o ToStr(Field(claim, "owner")) \o <<"\n">>
                          \o ToStr(Field(claim, "timestampS")) \o <<"\n">>
                          \o ToStr(Field(claim, "epoch")) \o <<"\n">>))

\* getSerializedClaim without the check of the required fields
getSerializedClaimUnchecked(proof) ==
  IF ~Truthy(proof)
     \/ ~Truthy(Get(proof, "signedClaim").val)
     \/ ~Truthy(Get(Get(proof, "signedClaim").val, "claim").val)
  THEN Throw(<<"Invalid proof structure: missing signedClaim.claim">>)
  ELSE LET claim == Get(Get(proof, "signedClaim").val, "claim").val
       IN Return(Str(ToStr(Field(claim, "identifier")) \o <<"\n">>
                     \o ToStr(Field(claim, "owner")) \o <<"\n">>
                     \o ToStr(Field(claim, "timestampS")) \o <<"\n">>
                     \o ToStr(Field(claim, "epoch"))))

\* getSerializedClaim(proof)
getSerializedClaim(proof) ==
  IF ~Truthy(proof)
     \/ ~Truthy(Get(proof, "signedClaim").val)
     \/ ~Truthy(Get(Get(proof, "signedClaim").val, "claim").val)
  THEN Throw(<<"Invalid proof structure: missing signedClaim.claim">>)
  ELSE LET claim == Get(Get(proof, "signedClaim").val, "claim").val
           missing == {i \in 1..Len(RequiredFields) :
                         IsMissing(Field(claim, RequiredFields[i]))}
       IN IF missing # {}
          THEN LET first == CHOOSE i \in missing : \A j \in missing : i <= j
               IN Throw(<<"Missing required claim field: ", RequiredFields[first]>>)
          ELSE Return(Str(ToStr(Field(claim, "identifier")) \o <<"\n">>
                          \o ToStr(Field(claim, "owner")) \o <<"\n">>
                          \o ToStr(Field(claim, "timestampS")) \o <<"\n">>
                          \o ToStr(Field(claim, "epoch"))))

\* '\x19Ethereum Signed Message:\n'
EthPrefix ==
  <<"U+0019", "E", "t", "h", "e", "r", "e", "u", "m", " ", "S", "i", "g", "n",
    "e", "d", " ", "M", "e", "s", "s", "a", "g", "e", ":", "\n">>

RECURSIVE WeightedSum(_, _, _)
WeightedSum(bytes, lo, hi) ==
  IF lo > hi THEN 0
  ELSE IF lo = hi THEN (lo * bytes[lo]) % 65536
  ELSE LET mid == (lo + hi) \div 2
       IN (WeightedSum(bytes, lo, mid) + WeightedSum(bytes, mid + 1, hi)) % 65536

\* keccak256 of @ethersproject/keccak256: '0x' and 64 lower-case hex digits
\* that are a function of the bytes hashed.  The permutation is not
\* modelled; the digits stand for the digest.
Keccak256(bytes) ==
  LET w == WeightedSum(bytes, 1, Len(bytes))
  IN <<"0", "x">> \o
     [i \in 1..64 |-> HexChars[((w + (i * (1 + Len(bytes))) + (w \div (1 + (i % 7)))) % 16) + 1]]

KeccakError == "boom"

\* getHash without the length between the prefix and the claim
getHashNoLength(serializedClaim, keccakThrows) ==
  IF ~Truthy(serializedClaim) \/ Typeof(serializedClaim) # "string"
  THEN [out |-> Throw(<<"Serialized claim must be a valid string">>),
        calls |-> <<>>]
  ELSE LET message == EthPrefix \o serializedClaim.s
           bytes == Utf8(message)
       IN IF keccakThrows
          THEN [out |-> Throw(<<"Failed to generate hash: ", KeccakError>>),
                calls |-> <<bytes>>]
          ELSE LET digest == Keccak256(bytes)
                   cleanDigest == Substring(digest, DigestPrefixLen, Len(digest))
               IN [out |-> Return(Buf(HexDecode(cleanDigest))),
                   calls |-> <<bytes>>]

\* getHash that tests only the type of its argument
getHashAcceptsEmpty(serializedClaim, keccakThrows) ==
  IF Typeof(serializedClaim) # "string"
  THEN [out |-> Throw(<<"Serialized claim must be a valid string">>),
        calls |-> <<>>]
  ELSE LET message == EthPrefix \o Decimal(Len(serializedClaim.s))
                        \o serializedClaim.s
           bytes == Utf8(message)
       IN IF keccakThrows
          THEN [out |-> Throw(<<"Failed to generate hash: ", KeccakError>>),
                calls |-> <<bytes>>]
          ELSE LET digest == Keccak256(bytes)
                   cleanDigest == Substring(digest, DigestPrefixLen, Len(digest))
               IN [out |-> Return(Buf(HexDecode(cleanDigest))),
                   calls |-> <<bytes>>]

\* getHash(serializedClaim); keccakThrows: the hash primitive fails.
\* out is the outcome, calls the byte strings handed to keccak256.
getHash(serializedClaim, keccakThrows) ==
  IF ~Truthy(serializedClaim) \/ Typeof(serializedClaim) # "string"
  THEN [out |-> Throw(<<"Serialized claim must be a valid string">>),
        calls |-> <<>>]
  ELSE LET message == EthPrefix \o Decimal(Len(serializedClaim.s))
                        \o serializedClaim.s
           bytes == Utf8(message)
       IN IF keccakThrows
          THEN [out |-> Throw(<<"Failed to generate hash: ", KeccakError>>),
                calls |-> <<bytes>>]
          ELSE LET digest == Keccak256(bytes)
                   cleanDigest == Substring(digest, DigestPrefixLen, Len(digest))
               IN [out |-> Return(Buf(HexDecode(cleanDigest))),
                   calls |-> <<bytes>>]

----------------------------------------------------------------------------
(* verifyProof.js                                                          *)

PrepareFailed(out) == Throw(<<"Failed to prepare proof data: ">> \o out.msg)

\* variant: the last signature of the attestation is taken
LastSignature(proof) ==
  LET sc == Get(proof, "signedClaim") IN
  IF sc.kind = "throw" THEN sc
  ELSE LET sigs == Get(sc.val, "signatures") IN
       IF sigs.kind = "throw" THEN sigs
       ELSE IF sigs.val.t = "array" /\ Len(sigs.val.a) > 0
            THEN Return(sigs.val.a[Len(sigs.val.a)])
            ELSE Index0(sigs.val)

\* proof.signedClaim.signatures[0], as an outcome
FirstSignature(proof) ==
  LET sc == Get(proof, "signedClaim") IN
  IF sc.kind = "throw" THEN sc
  ELSE LET sigs == Get(sc.val, "signatures") IN
       IF sigs.kind = "throw" THEN sigs ELSE Index0(sigs.val)

\* prepareProofData(proof); keccakThrows: the hash primitive fails
prepareProofData(proof, keccakThrows) ==
  LET sig == FirstSignature(proof) IN
  IF sig.kind = "throw" THEN [out |-> PrepareFailed(sig), calls |-> <<>>]
  ELSE
  LET recId == getRecId(sig.val) IN
  IF recId.kind = "throw" THEN [out |-> PrepareFailed(recId), calls |-> <<>>]
  ELSE
  LET formattedSignature == formatSignature(sig.val) IN
  IF formattedSignature.kind = "throw"
  THEN [out |-> PrepareFailed(formattedSignature), calls |-> <<>>]
  ELSE
  LET serializedClaim == getSerializedClaim(proof) IN
  IF serializedClaim.kind = "throw"
  THEN [out |-> PrepareFailed(serializedClaim), calls |-> <<>>]
  ELSE
  LET message == getHash(serializedClaim.val, keccakThrows) IN
  IF message.out.kind = "throw"
  THEN [out |-> PrepareFailed(message.out), calls |-> message.calls]
  ELSE
  LET signature == Buf(HexDecode(formattedSignature.val.s)) IN
  [out |-> Return(Obj([message |-> message.out.val,
                       signature |-> signature,
                       recId |-> recId.val])),
   calls |-> message.calls]

----------------------------------------------------------------------------
(* The inputs the functions are applied to                                 *)

\* all strings over alphabet A of length at most n
RECURSIVE StringsUpTo(_, _)
StringsUpTo(A, n) ==
  IF n = 0 THEN {<<>>}
  ELSE LET S == StringsUpTo(A, n - 1)
       IN S \cup {Append(s, c) : s \in S, c \in A}

SigAlphabet == {"0", "1", "a", "b", "c", "e", "f", "B", "x", "z", " ", "-"}

\* the r and s part of a signature: 64 bytes in hex
BodyHexLen == 128

\* n hex digits; with step 1 no two neighbours are equal
Body(step, n) == [i \in 1..n |-> HexChars[((i * step) % 16) + 1]]

Marker == <<"0", "x">>

BodyLens == {BodyHexLen - 2, BodyHexLen - 1, BodyHexLen}

LongSignatures ==
  {m \o Body(step, n) \o tail :
     m \in {Marker, <<>>}, step \in {0, 1}, n \in BodyLens,
     tail \in StringsUpTo(SigAlphabet, MaxTailLen)}

SigArgs ==
  {Null, Undefined, Num(27)}
    \cup {Str(s) : s \in StringsUpTo(SigAlphabet, MaxShortLen)}
    \cup {Str(s) : s \in LongSignatures}

TextAlphabet == {"a", "\n", "U+00E9", "U+20AC"}

Pad(n) == [i \in 1..n |-> "a"]

TextArgs ==
  {Null, Undefined, Num(5)}
    \cup {Str(Pad(n) \o s) : n \in {0, 9, 99},
                             s \in StringsUpTo(TextAlphabet, MaxTextLen)}

Identifiers == {Str(<<"i", "d">>), Str(<<"0", "x", "1">>), Str(<<>>), Undefined, Null}
Owners == {Str(<<"G", "X">>), Undefined, Null}
Timestamps == {Num(1), Num(1234567890), Num(-1), Str(<<"1", "7">>), Undefined, Null}
Epochs == {Num(n) : n \in 0..MaxEpoch} \cup {Undefined, Null}

Claims ==
  {Obj([identifier |-> id, owner |-> ow, timestampS |-> ts, epoch |-> ep,
        provider |-> Str(<<"h", "t", "t", "p">>),
        parameters |-> Str(<<"{", "}">>)]) :
     id \in Identifiers, ow \in Owners, ts \in Timestamps, ep \in Epochs}

ProofSignatures ==
  {Undefined, Arr(<<>>),
   Arr(<<Str(<<"0", "x", "1", "2", "3", "4">>)>>),
   Arr(<<Str(Marker \o Body(1, BodyHexLen) \o <<"1", "b">>)>>),
   Arr(<<Str(Marker \o Body(0, BodyHexLen) \o <<"1", "c">>), Str(<<"0", "x">>)>>),
   Arr(<<Str(Marker \o Body(1, BodyHexLen) \o <<"1", "f">>)>>),
   Arr(<<Str(Marker \o Body(1, BodyHexLen) \o <<"z", "z">>)>>),
   Arr(<<Str(Body(1, BodyHexLen + 2) \o <<"1", "e">>)>>)}

ProofArgs ==
  {Null, Undefined, Obj(<<>>), Obj([signedClaim |-> Null])}
    \cup {Obj([signedClaim |-> Obj([claim |-> c, signatures |-> sg])]) :
            c \in Claims \cup {Undefined}, sg \in ProofSignatures}

----------------------------------------------------------------------------
(* The state machine: one function is applied to one input                 *)

Idle == [pc |-> "idle"]

\* no entry point runs
NoEntryPoint ==
  /\ entry = [kind |-> "none"]
  /\ files = <<>>
  /\ log = <<>>
  /\ rq = Idle
  /\ vf = Idle
  /\ wf = Idle
  /\ cli = Idle

Init ==
  /\ pc = "ready"
  /\ op = "none"
  /\ result = [kind |-> "none"]
  /\ keccakCalls = <<>>
  /\ \/ arg \in SigArgs
     \/ arg \in TextArgs
     \/ arg \in ProofArgs
  /\ NoEntryPoint

CallGetRecId ==
  /\ pc = "ready"
  /\ pc' = "done"
  /\ op' = "getRecId"
  /\ result' = getRecId(arg)
  /\ UNCHANGED <<arg, keccakCalls>>
  /\ UNCHANGED appVars

CallFormatSignature ==
  /\ pc = "ready"
  /\ pc' = "done"
  /\ op' = "formatSignature"
  /\ result' = formatSignature(arg)
  /\ UNCHANGED <<arg, keccakCalls>>
  /\ UNCHANGED appVars

CallGetSerializedClaim ==
  /\ pc = "ready"
  /\ pc' = "done"
  /\ op' = "getSerializedClaim"
  /\ result' = getSerializedClaim(arg)
  /\ UNCHANGED <<arg, keccakCalls>>
  /\ UNCHANGED appVars

CallGetHash ==
  /\ pc = "ready"
  /\ \E keccakThrows \in BOOLEAN :
       LET r == getHash(arg, keccakThrows) IN
       /\ result' = r.out
       /\ keccakCalls' = keccakCalls \o r.calls
       /\ op' = IF keccakThrows THEN "getHash/keccak throws" ELSE "getHash"
  /\ pc' = "done"
  /\ UNCHANGED arg
  /\ UNCHANGED appVars

\* variant: a successful call detaches the signatures from the proof
CallPrepareProofDataConsuming ==
  /\ pc = "ready"
  /\ \E keccakThrows \in BOOLEAN :
       LET r == prepareProofData(arg, keccakThrows) IN
       /\ result' = r.out
       /\ keccakCalls' = keccakCalls \o r.calls
       /\ op' = IF keccakThrows THEN "prepareProofData/keccak throws"
                ELSE "prepareProofData"
       /\ arg' = IF r.out.kind = "return"
                 THEN Obj([signedClaim |->
                             Obj([claim |-> arg.f.signedClaim.f.claim,
                                  signatures |-> Arr(<<>>)])])
                 ELSE arg
  /\ pc' = "done"
  /\ UNCHANGED appVars

CallPrepareProofData ==
  /\ pc = "ready"
  /\ \E keccakThrows \in BOOLEAN :
       LET r == prepareProofData(arg, keccakThrows) IN
       /\ result' = r.out
       /\ keccakCalls' = keccakCalls \o r.calls
       /\ op' = IF keccakThrows THEN "prepareProofData/keccak throws"
                ELSE "prepareProofData"
  /\ pc' = "done"
  /\ UNCHANGED arg
  /\ UNCHANGED appVars

Next ==
  \/ CallGetRecId
  \/ CallFormatSignature
  \/ CallGetSerializedClaim
  \/ CallGetHash
  \/ CallPrepareProofData

Spec == Init /\ [][Next]_vars

----------------------------------------------------------------------------
(* Vocabulary of the properties                                            *)

AllHex(s) == \A i \in 1..Len(s) : IsHexDigit(s[i])

\* arg is '0x' + B + R with B of 128 hex digits and R of 2 characters
IsMarkedSignature(v) ==
  /\ v.t = "string"
  /\ Len(v.s) = 2 + BodyHexLen + 2
  /\ SubSeq(v.s, 1, 2) = Marker
  /\ AllHex(SubSeq(v.s, 3, 2 + BodyHexLen))

\* the byte that the last two characters of s encode, when both are hex digits
EndsInHexByte(s) ==
  Len(s) >= 2 /\ IsHexDigit(s[Len(s) - 1]) /\ IsHexDigit(s[Len(s)])

LastByte(s) == 16 * HexVal(s[Len(s) - 1]) + HexVal(s[Len(s)])

\* C1: formatSignature returns exactly 128 characters, none of them from
\* the '0x' marker, for every string of at least 130 characters, and fails
\* for every shorter string.
FormatSignatureReturns128 ==
  (op = "formatSignature" /\ arg.t = "string") =>
    IF Len(arg.s) >= 130
    THEN /\ result.kind = "return"
         /\ result.val.t = "string"
         /\ Len(result.val.s) = 128
         /\ (SubSeq(arg.s, 1, 2) = Marker /\ AllHex(SubSeq(arg.s, 3, Len(arg.s)))
               => AllHex(result.val.s))
    ELSE result.kind = "throw"

\* C2: formatSignature of '0x' + B + R returns exactly the 128 hex
\* characters B.
FormatSignatureKeepsBody ==
  (op = "formatSignature" /\ IsMarkedSignature(arg)) =>
    result = Return(Str(SubSeq(arg.s, 3, 2 + BodyHexLen)))

\* C3: getRecId of a string fails or returns an integer in 0..3; it fails
\* when the string does not end in two hex digits.
GetRecIdFailsOrInRange ==
  (op = "getRecId" /\ arg.t = "string") =>
    /\ result.kind = "throw"
         \/ (result.val.t = "number" /\ result.val.n \in 0..3)
    /\ ~EndsInHexByte(arg.s) => result.kind = "throw"

\* C4: getRecId of a signature whose last two characters encode the byte b
\* returns b - 27 when 27 <= b <= 30 and fails for every other b.
GetRecIdIsLastByteMinus27 ==
  (op = "getRecId" /\ arg.t = "string" /\ EndsInHexByte(arg.s)) =>
    IF LastByte(arg.s) \in 27..30
    THEN result = Return(Num(LastByte(arg.s) - 27))
    ELSE result.kind = "throw"

GetRecIdOneReached ==
  /\ op = "getRecId"
  /\ arg.t = "string"
  /\ Len(arg.s) = 132
  /\ SubSeq(arg.s, 131, 132) = <<"1", "c">>
  /\ result = Return(Num(1))

\* the base-10 digits of a natural number, most significant first
DigitsOf(n) ==
  LET k == IF n >= 10^9 THEN 10
           ELSE CHOOSE d \in 1..9 : n < 10^d /\ (d = 1 \/ n >= 10^(d - 1))
  IN [i \in 1..k |-> HexChars[((n \div (10^(k - i))) % 10) + 1]]

\* the text of a string or integer claim field
StringForm(v) ==
  IF v.t = "string" THEN v.s
  ELSE IF v.n < 0 THEN <<"-">> \o DigitsOf(0 - v.n) ELSE DigitsOf(v.n)

ClaimOf(proof) == Field(Field(proof, "signedClaim"), "claim")

StructureMissing(proof) ==
  \/ IsMissing(proof)
  \/ IsMissing(Field(proof, "signedClaim"))
  \/ IsMissing(ClaimOf(proof))

MissingFields(proof) ==
  {f \in {"identifier", "owner", "timestampS", "epoch"} :
     IsMissing(Field(ClaimOf(proof), f))}

HasAllFields(proof) ==
  /\ ~StructureMissing(proof)
  /\ ClaimOf(proof).t = "object"
  /\ MissingFields(proof) = {}

\* C5: for a claim with identifier, owner, timestampS and epoch present,
\* getSerializedClaim returns these four, in this order, in string form,
\* joined by single newlines and nothing else.
SerializedClaimIsFourFieldsJoined ==
  (op = "getSerializedClaim" /\ HasAllFields(arg)) =>
    result = Return(Str(StringForm(ClaimOf(arg).f.identifier) \o <<"\n">>
                        \o StringForm(ClaimOf(arg).f.owner) \o <<"\n">>
                        \o StringForm(ClaimOf(arg).f.timestampS) \o <<"\n">>
                        \o StringForm(ClaimOf(arg).f.epoch)))

SerializedClaimReached ==
  /\ op = "getSerializedClaim"
  /\ HasAllFields(arg)
  /\ ClaimOf(arg).f.timestampS = Num(1234567890)
  /\ result = Return(Str(<<"i", "d", "\n", "G", "X", "\n", "1", "2", "3", "4",
                           "5", "6", "7", "8", "9", "0", "\n", "1">>))

\* C6: getSerializedClaim fails when proof, signedClaim or claim is
\* missing, fails naming a missing field when one of the four fields is
\* undefined or null, and returns only when all four are present.
SerializedClaimRejectsMissing ==
  op = "getSerializedClaim" =>
    /\ StructureMissing(arg) =>
         result = Throw(<<"Invalid proof structure: missing signedClaim.claim">>)
    /\ (~StructureMissing(arg) /\ MissingFields(arg) # {}) =>
         /\ result.kind = "throw"
         /\ Len(result.msg) = 2
         /\ result.msg[1] = "Missing required claim field: "
         /\ result.msg[2] \in MissingFields(arg)
    /\ result.kind = "return" => HasAllFields(arg)

MissingEpochReached ==
  /\ op = "getSerializedClaim"
  /\ ~StructureMissing(arg)
  /\ MissingFields(arg) = {"epoch"}
  /\ result = Throw(<<"Missing required claim field: ", "epoch">>)

\* the bytes of '\x19Ethereum Signed Message:\n'
EthPrefixBytes ==
  <<25, 69, 116, 104, 101, 114, 101, 117, 109, 32, 83, 105, 103, 110, 101,
    100, 32, 77, 101, 115, 115, 97, 103, 101, 58, 10>>

\* the ASCII bytes of the decimal numeral of n
DecimalBytes(n) ==
  LET d == DigitsOf(n) IN [i \in 1..Len(d) |-> 48 + HexVal(d[i])]

\* the bytes a string occupies in a UTF-8 byte string
BytesOf(s) == Utf8(s)

\* the 32 bytes that the digest '0x' + 64 hex digits stands for
DigestBytes(hex) ==
  [i \in 1..32 |-> 16 * HexVal(hex[2 * i + 1]) + HexVal(hex[2 * i + 2])]

\* C7: for a non-empty ASCII string S, getHash(S) is the 32-byte
\* Keccak-256 digest of prefix + decimal length of S + S.
HashIsKeccakOfPrefixedMessage ==
  (op = "getHash" /\ arg.t = "string" /\ Len(arg.s) > 0 /\ IsAscii(arg.s)) =>
    LET preimage == EthPrefixBytes \o DecimalBytes(Len(arg.s))
                      \o [i \in 1..Len(arg.s) |-> CharCode(arg.s[i])]
    IN /\ keccakCalls = <<preimage>>
       /\ result = Return(Buf(DigestBytes(Keccak256(preimage))))
       /\ Len(result.val.b) = 32

HashOfTwoDigitLengthReached ==
  /\ op = "getHash"
  /\ arg.t = "string"
  /\ IsAscii(arg.s)
  /\ Len(arg.s) = 10
  /\ Len(keccakCalls) = 1
  /\ SubSeq(keccakCalls[1], 27, 28) = <<49, 48>>
  /\ result.kind = "return"

\* C8: for every non-empty string S the decimal length that getHash puts
\* between the prefix and S is the number of bytes of S in the hashed bytes.
HashLengthCountsBytes ==
  (op = "getHash" /\ arg.t = "string" /\ Len(arg.s) > 0) =>
    keccakCalls = <<EthPrefixBytes \o DecimalBytes(Len(BytesOf(arg.s)))
                      \o BytesOf(arg.s)>>

\* C9: getHash fails with the invalid-input error, without calling the hash
\* primitive, on the empty string, null and non-strings; fails with
\* 'Failed to generate hash' and the cause when the primitive fails; and
\* returns exactly 32 bytes otherwise.
HashFailsOrReturns32Bytes ==
  op \in {"getHash", "getHash/keccak throws"} =>
    IF arg.t # "string" \/ Len(arg.s) = 0
    THEN /\ result = Throw(<<"Serialized claim must be a valid string">>)
         /\ keccakCalls = <<>>
    ELSE IF op = "getHash/keccak throws"
    THEN result = Throw(<<"Failed to generate hash: ", KeccakError>>)
    ELSE /\ result.kind = "return"
         /\ result.val.t = "buffer"
         /\ Len(result.val.b) = 32

HashPrimitiveFailureReached ==
  /\ op = "getHash/keccak throws"
  /\ arg.t = "string"
  /\ Len(arg.s) > 0
  /\ Len(keccakCalls) = 1
  /\ result = Throw(<<"Failed to generate hash: ", KeccakError>>)

\* C10: prepareProofData fails or returns a payload with a 32-byte message,
\* a 64-byte signature and a recId that is an integer in 0..3.
PreparedPayloadShape ==
  (op \in {"prepareProofData", "prepareProofData/keccak throws"}
     /\ result.kind = "return") =>
    /\ Len(result.val.f.message.b) = 32
    /\ Len(result.val.f.signature.b) = 64
    /\ result.val.f.recId.t = "number"
    /\ result.val.f.recId.n \in 0..3

----------------------------------------------------------------------------
(* Two invocations: prepareProofData and getHash are applied, in any       *)
(* order, to two attestations; arg holds the two attestations and result   *)
(* the outcomes of the invocations made so far                             *)

\* invocations made in one run
MaxPairCalls == 2

Http == Str(<<"h", "t", "t", "p">>)
Https == Str(<<"h", "t", "t", "p", "s">>)

PairClaims ==
  {Obj([identifier |-> id, owner |-> Str(<<"G", "X">>),
        timestampS |-> Num(1), epoch |-> Num(1),
        provider |-> pv, parameters |-> Str(<<"{", "}">>)]) :
     id \in {Str(<<"i", "d">>), Str(<<"0", "x", "1">>)}, pv \in {Http, Https}}

PairSignatures ==
  {Arr(<<first>> \o others) :
     first \in {Str(Marker \o Body(1, BodyHexLen) \o <<"1", "b">>),
                Str(Body(1, BodyHexLen + 2) \o <<"1", "e">>)},
     others \in {<<>>, <<Str(Body(0, BodyHexLen + 2) \o <<"1", "c">>)>>}}

PairArgs ==
  {Obj([signedClaim |-> Obj([claim |-> c, signatures |-> sg])]) :
     c \in PairClaims, sg \in PairSignatures}

\* the hash primitive is a function of its input: in one run it fails on
\* every call or on none
KeccakModes == {"keccak", "keccak throws"}

InitPair ==
  /\ pc = "pair"
  /\ op \in KeccakModes
  /\ arg \in PairArgs \X PairArgs
  /\ result = <<>>
  /\ keccakCalls = <<>>
  /\ NoEntryPoint

PairPrepareProofData ==
  /\ pc = "pair"
  /\ Len(result) < MaxPairCalls
  /\ \E on \in 1..2 :
       LET r == prepareProofData(arg[on], op = "keccak throws") IN
       /\ result' = Append(result, [fn |-> "prepareProofData", on |-> on,
                                    out |-> r.out])
       /\ keccakCalls' = keccakCalls \o r.calls
  /\ UNCHANGED <<pc, op, arg>>
  /\ UNCHANGED appVars

\* getHash on the serialized claim of one of the attestations
PairGetHash ==
  /\ pc = "pair"
  /\ Len(result) < MaxPairCalls
  /\ \E on \in 1..2 :
       LET serializedClaim == getSerializedClaim(arg[on]) IN
       /\ serializedClaim.kind = "return"
       /\ LET r == getHash(serializedClaim.val, op = "keccak throws") IN
          /\ result' = Append(result, [fn |-> "getHash", on |-> on,
                                       out |-> r.out])
          /\ keccakCalls' = keccakCalls \o r.calls
  /\ UNCHANGED <<pc, op, arg>>
  /\ UNCHANGED appVars

NextPair ==
  \/ PairPrepareProofData
  \/ PairGetHash

SpecPair == InitPair /\ [][NextPair]_vars

\* the claim fields and the first signature of an attestation
ClaimKey(proof) ==
  LET sigs == Field(Field(proof, "signedClaim"), "signatures") IN
  <<[i \in DOMAIN RequiredFields |-> Field(ClaimOf(proof), RequiredFields[i])],
    IF sigs.t = "array" /\ Len(sigs.a) > 0 THEN sigs.a[1] ELSE Undefined>>

\* C11: two invocations of prepareProofData, or of getHash, on attestations
\* with equal claim fields and equal signatures[0] have equal outcomes (the
\* same digest, signature body and recovery id, or the same failure),
\* whatever was invoked before.
EqualKeysGiveEqualPayloads ==
  \A i, j \in DOMAIN result :
    (pc = "pair"
       /\ result[i].fn = result[j].fn
       /\ ClaimKey(arg[result[i].on]) = ClaimKey(arg[result[j].on]))
      => result[i].out = result[j].out

\* two different attestations with the same key, one of them with a second
\* signature, were both prepared and gave the same payload
EqualKeysReached ==
  /\ pc = "pair"
  /\ Len(result) = 2
  /\ result[1].fn = "prepareProofData"
  /\ result[2].fn = "prepareProofData"
  /\ result[1].on # result[2].on
  /\ arg[1] # arg[2]
  /\ ClaimKey(arg[1]) = ClaimKey(arg[2])
  /\ Len(arg[1].f.signedClaim.f.signatures.a)
       # Len(arg[2].f.signedClaim.f.signatures.a)
  /\ result[1].out.kind = "return"
  /\ result[2].out = result[1].out

----------------------------------------------------------------------------
(* Files, paths and JSON                                                   *)

\* CONFIG.PATHS.PROOF_FILE
PROOF_FILE ==
  Str(<<".", "/", "s", "r", "c", "/", "p", "r", "o", "o", "f", ".", "j",
        "s", "o", "n">>)

\* a path whose directory does not exist, a path whose directory is a
\* regular file, and a path without a directory part
MissingDirPath ==
  Str(<<".", "/", "n", "o", "/", "p", ".", "j", "s", "o", "n">>)
FileDirPath ==
  Str(<<".", "/", "f", "/", "p", ".", "j", "s", "o", "n">>)
BarePath ==
  Str(<<"p", ".", "j", "s", "o", "n">>)

\* the directories and regular files that exist besides the proof files
Directories == {<<".">>, <<".", "/", "s", "r", "c">>}
RegularFiles == {<<".", "/", "f">>}

\* the position of the last "/" of s, 0 when there is none
LastSlash(s) ==
  IF \E i \in 1..Len(s) : s[i] = "/"
  THEN CHOOSE i \in 1..Len(s) :
         s[i] = "/" /\ \A j \in (i + 1)..Len(s) : s[j] # "/"
  ELSE 0

\* path.dirname(p), for a path that does not end in "/"
Dirname(p) ==
  LET i == LastSlash(p) IN
  IF i = 0 THEN <<".">>
  ELSE IF i = 1 THEN <<"/">>
  ELSE SubSeq(p, 1, i - 1)

\* the value JSON.parse gives back for the text JSON.stringify writes:
\* undefined members are dropped, undefined and NaN elements become null
RECURSIVE JsonValue(_)
JsonValue(v) ==
  IF v.t = "object"
  THEN Obj([k \in {m \in DOMAIN v.f : v.f[m].t # "undefined"} |->
              JsonValue(v.f[k])])
  ELSE IF v.t = "array"
  THEN Arr([i \in DOMAIN v.a |->
              IF v.a[i].t = "undefined" THEN Null ELSE JsonValue(v.a[i])])
  ELSE IF v = NaN THEN Null
  ELSE v

\* the content of a file: JSON text of a value, or text that is not JSON
JsonText(v) == [kind |-> "json", value |-> JsonValue(v)]
NotJson == [kind |-> "text"]
NoFile == [kind |-> "none"]

\* JSON.parse(content), as an outcome
JsonParse(content) ==
  IF content.kind = "json" THEN Return(content.value)
  ELSE Throw(<<"Unexpected token">>)

----------------------------------------------------------------------------
(* requestProof.js: the proof request                                      *)

Stellar == Str(<<"s", "t", "e", "l", "l", "a", "r">>)
TradingEconomics ==
  Str(<<"t", "r", "a", "d", "i", "n", "g", "-",
        "e", "c", "o", "n", "o", "m", "i", "c", "s">>)
Forbes == Str(<<"f", "o", "r", "b", "e", "s">>)
AccuWeather == Str(<<"a", "c", "c", "u", "w", "e", "a", "t", "h", "e", "r">>)
Goal == Str(<<"g", "o", "a", "l">>)

\* the cases of the switch of requestProof
SupportedTypes == {Stellar, TradingEconomics, Forbes, AccuWeather, Goal}

\* CONFIG.API
COINGECKO_STELLAR_PRICE ==
  "https://api.coingecko.com/api/v3/simple/price?ids=stellar&vs_currencies=usd"
TRADING_ECONOMICS_COUNTRIES == "https://tradingeconomics.com/"
FORBES_BILLIONAIRES ==
  "https://www.forbes.com/forbesapi/person/rtb/0/-estWorthPrev/true.json?fields=rank,personName,finalWorth"
ACCUWEATHER_NYC ==
  "https://www.accuweather.com/en/us/new-york/10021/weather-forecast/349727"
GOAL_LIVE_SCORES == "https://www.goal.com/en-in/live-scores"

\* The arguments of the zkFetch call of each generate function and the
\* prefix of its failure.  A regular expression is written as the list of
\* its capture groups, headers and context as the text that tells them apart.
generateStellarPriceProof ==
  [url |-> COINGECKO_STELLAR_PRICE, method |-> "GET",
   headers |-> "none", context |-> "none",
   responseMatches |-> <<"price">>,
   responseRedactions |-> "none",
   failed |-> "Failed to generate proof: "]

generateTradingEconomicsProof ==
  [url |-> TRADING_ECONOMICS_COUNTRIES, method |-> "GET",
   headers |-> "sec-fetch-dest: document", context |-> "countries gdp",
   responseMatches |-> <<"country1 gdp1 .. country5 gdp5">>,
   responseRedactions |-> <<>>,
   failed |-> "Failed to generate Trading Economics proof: "]

generateForbesProof ==
  [url |-> FORBES_BILLIONAIRES, method |-> "GET",
   headers |-> "sec-fetch-dest: empty",
   context |-> "forbes real time billionaires",
   responseMatches |-> <<"name1 rank1 worth1 .. name5 rank5 worth5">>,
   responseRedactions |-> <<>>,
   failed |-> "Failed to generate Forbes proof: "]

generateAccuWeatherProof ==
  [url |-> ACCUWEATHER_NYC, method |-> "GET",
   headers |-> "sec-fetch-dest: document", context |-> "accuweather nyc",
   responseMatches |-> <<"city", "tempInC">>,
   responseRedactions |-> <<>>,
   failed |-> "Failed to generate AccuWeather proof: "]

generateGoalProof ==
  [url |-> GOAL_LIVE_SCORES, method |-> "GET",
   headers |-> "none", context |-> "none",
   responseMatches |-> <<"team1 team2 score1 score2">>,
   responseRedactions |-> <<"team1 team2 score1 score2">>,
   failed |-> "Failed to generate Goal.com proof: "]

\* variant: the case 'goal' calls the generate function of 'stellar'
GenerateGoalAsStellar(proofType) ==
  CASE proofType \in {Stellar, Goal} -> generateStellarPriceProof
    [] proofType = TradingEconomics -> generateTradingEconomicsProof
    [] proofType = Forbes -> generateForbesProof
    [] proofType = AccuWeather -> generateAccuWeatherProof

\* the generate function the switch of requestProof selects
Generate(proofType) ==
  CASE proofType = Stellar -> generateStellarPriceProof
    [] proofType = TradingEconomics -> generateTradingEconomicsProof
    [] proofType = Forbes -> generateForbesProof
    [] proofType = AccuWeather -> generateAccuWeatherProof
    [] proofType = Goal -> generateGoalProof

\* variant: the error does not name the type
UnknownProofTypeUnnamed(proofType) ==
  Throw(<<"Unknown proof type. Supported types: 'stellar', 'trading-economics', 'forbes', 'accuweather', 'goal'">>)

UnknownProofType(proofType) ==
  Throw(<<"Unknown proof type: ">> \o ToStr(proofType)
          \o <<". Supported types: 'stellar', 'trading-economics', 'forbes', 'accuweather', 'goal'">>)

\* variant: the directory of the path is not looked at
validateOutputPathStringOnly(outputPath, fs) ==
  IF ~Truthy(outputPath) \/ Typeof(outputPath) # "string"
  THEN Throw(<<"Output path must be a valid string">>)
  ELSE Return(Undefined)

\* validateOutputPath(outputPath) in a file system with the proof files fs
validateOutputPath(outputPath, fs) ==
  IF ~Truthy(outputPath) \/ Typeof(outputPath) # "string"
  THEN Throw(<<"Output path must be a valid string">>)
  ELSE
  LET dir == Dirname(outputPath.s) IN
  IF dir \notin Directories \cup RegularFiles \cup DOMAIN fs
  THEN Throw(<<"Directory does not exist: ">> \o dir)
  ELSE IF dir \notin Directories
  THEN Throw(<<"Path is not a directory: ">> \o dir)
  ELSE Return(Undefined)

ClientError == "boom"

\* createReclaimClient(); constructorThrows: new ReclaimClient fails
createReclaimClient(constructorThrows) ==
  IF constructorThrows
  THEN Throw(<<"Failed to create Reclaim client: ", ClientError>>)
  ELSE Return(Obj([zkFetch |-> Str(<<"f">>)]))

\* what a generate function gives back once zkFetch has settled
Generated(generate, settled) ==
  IF settled.kind = "throw" THEN Throw(<<generate.failed>> \o settled.msg)
  ELSE LET values == Get(settled.val, "extractedParameterValues") IN
       IF values.kind = "throw" THEN Throw(<<generate.failed>> \o values.msg)
       ELSE settled

\* the proof files fs after the file at path got the content
WriteFile(fs, path, content) ==
  [p \in DOMAIN fs \cup {path} |-> IF p = path THEN content ELSE fs[p]]

WriteError == "disk full"

\* how fs.writeFileSync can end: it writes, it fails before the file is
\* opened, or it fails after the file was truncated
WriteModes == {"written", "not opened", "truncated"}

\* variant: a file that exists is kept as it is
saveProofKeepExisting(proof, outputPath, fs, mode) ==
  [out |-> Return(Undefined),
   files |-> IF outputPath.s \in DOMAIN fs THEN fs
             ELSE WriteFile(fs, outputPath.s, JsonText(proof)),
   events |-> <<[e |-> "writeFileSync", path |-> outputPath.s,
                 data |-> JsonText(proof), mode |-> mode,
                 before |-> NoFile]>>]

\* variant: the file is not truncated, a file that holds other text keeps
\* part of it
saveProofMixing(proof, outputPath, fs, mode) ==
  [out |-> Return(Undefined),
   files |-> IF outputPath.s \in DOMAIN fs
                  /\ fs[outputPath.s] # JsonText(proof)
             THEN WriteFile(fs, outputPath.s, NotJson)
             ELSE WriteFile(fs, outputPath.s, JsonText(proof)),
   events |-> <<[e |-> "writeFileSync", path |-> outputPath.s,
                 data |-> JsonText(proof), mode |-> mode,
                 before |-> NoFile]>>]

\* saveProof(proof, outputPath) on the proof files fs: its outcome, the
\* files it leaves and the write it attempted
saveProof(proof, outputPath, fs, mode) ==
  IF proof.t = "undefined"
  THEN [out |-> Throw(<<"Failed to save proof: ",
                        "The data argument must be of type string">>),
        files |-> fs, events |-> <<>>]
  ELSE
  LET proofData == JsonText(proof)
      write == [e |-> "writeFileSync", path |-> outputPath.s,
                data |-> proofData, mode |-> mode,
                before |-> IF outputPath.s \in DOMAIN fs
                           THEN fs[outputPath.s] ELSE NoFile]
  IN
  IF mode = "written"
  THEN [out |-> Return(Undefined),
        files |-> WriteFile(fs, outputPath.s, proofData),
        events |-> <<write>>]
  ELSE [out |-> Throw(<<"Failed to save proof: ", WriteError>>),
        files |-> IF mode = "truncated"
                  THEN WriteFile(fs, outputPath.s, NotJson) ELSE fs,
        events |-> <<write>>]

\* the value of a parameter with a default
Default(v, d) == IF v.t = "undefined" THEN d ELSE v

NetworkError == "network down"

\* an attestation as zkFetch returns it
Attestation(claimData, signatures) ==
  Obj([claimData |-> claimData, signatures |-> signatures,
       extractedParameterValues |-> Obj([price |-> Str(<<"0", ".", "1">>)])])

ClaimData ==
  Obj([identifier |-> Str(<<"i", "d">>), owner |-> Str(<<"o", "w">>),
       timestampS |-> Num(1), epoch |-> Num(1),
       provider |-> Http, parameters |-> Str(<<"{", "}">>)])

\* the allowance of the tests for a timestamp ahead of the clock, in seconds
SkewAllowance == 300

\* Math.floor(Date.now() / 1000) when the proof file is read
NowInSeconds == 1000

\* claim data with the given timestamp and epoch
ClaimDataOf(timestampS, epoch) ==
  Obj([identifier |-> Str(<<"i", "d">>), owner |-> Str(<<"o", "w">>),
       timestampS |-> timestampS, epoch |-> epoch,
       provider |-> Http, parameters |-> Str(<<"{", "}">>)])

\* claim data with epoch 0, with timestamp 0 and with a timestamp further
\* ahead of the clock than the allowance
OutOfRangeClaimData ==
  {ClaimDataOf(Num(1), Num(0)), ClaimDataOf(Num(0), Num(1)),
   ClaimDataOf(Num(NowInSeconds + SkewAllowance + 1), Num(1))}

\* the signature of the tests, a signature without the 0x marker, a short
\* one, one that does not end in hex digits and one with recovery byte 0x1f
MarkedSignature == Str(Marker \o Body(0, BodyHexLen) \o <<"1", "b">>)
BareSignature == Str(Body(1, BodyHexLen + 2) \o <<"1", "c">>)
ShortSignature == Str(<<"0", "x", "1", "2", "3", "4">>)
NoHexSignature == Str(Body(1, BodyHexLen + 2) \o <<"z", "z">>)
HighSignature == Str(Body(1, BodyHexLen + 2) \o <<"1", "f">>)

Attestations ==
  {Attestation(ClaimData, Arr(<<sig>>)) :
     sig \in {MarkedSignature, BareSignature, ShortSignature,
              NoHexSignature, HighSignature}}
    \cup {Attestation(ClaimData, Arr(<<>>)),
          Attestation(ClaimData, Undefined),
          Attestation(Undefined, Arr(<<BareSignature>>))}

\* how the promise of zkFetch can settle
ZkFetchSettled ==
  {Return(proof) : proof \in Attestations \cup {Undefined, Null}}
    \cup {Throw(<<NetworkError>>)}

\* a call of requestProof that has not started to run
RequestCalled(outputPath, proofType) ==
  [pc |-> "called", outputPath |-> outputPath, proofType |-> proofType]

\* requestProof up to its first await: the parameters get their defaults,
\* the path is validated, the client created and zkFetch called
RequestStart ==
  /\ rq.pc = "called"
  /\ LET outputPath == Default(rq.outputPath, PROOF_FILE)
         proofType == Default(rq.proofType, Stellar)
         valid == validateOutputPath(outputPath, files)
         done(out) == [pc |-> "done", outputPath |-> outputPath,
                       proofType |-> proofType, out |-> out]
     IN
     IF valid.kind = "throw"
     THEN rq' = done(valid) /\ log' = log
     ELSE \E constructorThrows \in BOOLEAN :
       LET reclaimClient == createReclaimClient(constructorThrows)
           created == Append(log, [e |-> "new ReclaimClient"])
       IN
       IF reclaimClient.kind = "throw"
       THEN rq' = done(reclaimClient) /\ log' = created
       ELSE IF proofType \in SupportedTypes
       THEN /\ rq' = [pc |-> "zkFetch", outputPath |-> outputPath,
                      proofType |-> proofType]
            /\ log' = Append(created,
                             [e |-> "zkFetch", call |-> Generate(proofType)])
       ELSE rq' = done(UnknownProofType(proofType)) /\ log' = created
  /\ UNCHANGED <<pc, op, arg, result, keccakCalls, entry, files, vf, wf, cli>>

\* requestProof after zkFetch has settled: the generate function returns or
\* fails, the proof is saved and returned
RequestSettles ==
  /\ rq.pc = "zkFetch"
  /\ \E settled \in ZkFetchSettled, mode \in WriteModes :
       LET proof == Generated(Generate(rq.proofType), settled)
           done(out) == [pc |-> "done", outputPath |-> rq.outputPath,
                         proofType |-> rq.proofType, settled |-> settled,
                         out |-> out]
       IN
       IF proof.kind = "throw"
       THEN /\ mode = "written"
            /\ rq' = done(proof)
            /\ log' = Append(log, [e |-> "zkFetch settled"])
            /\ files' = files
       ELSE LET saved == saveProof(proof.val, rq.outputPath, files, mode) IN
            /\ rq' = done(IF saved.out.kind = "throw" THEN saved.out ELSE proof)
            /\ log' = Append(log, [e |-> "zkFetch settled"]) \o saved.events
            /\ files' = saved.files
  /\ UNCHANGED <<pc, op, arg, result, keccakCalls, entry, vf, wf, cli>>

----------------------------------------------------------------------------
(* verifyProof.js: the verification                                        *)

\* CONFIG of config.js; STELLAR is the contract of the single-network
\* definition
STELLAR ==
  [CONTRACT_ID |-> "CCDFS3UOSJOM2RWKVFLT76SIKI3WCSVSFUGX24EL4NXVISFOFQB37KKO",
   SOROBAN_RPC_URL |-> "https://soroban-testnet.stellar.org",
   EXPLORER_LINK |-> "https://stellar.expert/explorer/testnet/tx/",
   FUNCTION_NAME |-> "verify_proof", BASE_FEE |-> "100"]

STELLAR_TESTNET ==
  [CONTRACT_ID |-> "CA3EMXR6JOOTNP44T3OAJFMMMGKRRETDJKBLZP2RU3SIY4SDFAH54DU5",
   SOROBAN_RPC_URL |-> "https://soroban-testnet.stellar.org",
   EXPLORER_LINK |-> "https://stellar.expert/explorer/testnet/tx/",
   FUNCTION_NAME |-> "verify_proof", BASE_FEE |-> "100"]

STELLAR_MAINNET ==
  [CONTRACT_ID |-> "CD4M2KHW3ESOV3RUT7KCTC6BX37PIL2Z3BEK47IA74KIMFIFUI3JJDMO",
   SOROBAN_RPC_URL |-> "https://mainnet.sorobanrpc.com",
   EXPLORER_LINK |-> "https://stellar.expert/explorer/public/tx/",
   FUNCTION_NAME |-> "verify_proof", BASE_FEE |-> "100"]

TESTNET_DETAILS ==
  [network |-> "TESTNET",
   networkUrl |-> "https://horizon-testnet.stellar.org",
   networkPassphrase |-> "Test SDF Network ; September 2015"]

MAINNET_DETAILS ==
  [network |-> "MAINNET",
   networkUrl |-> "https://horizon.stellar.org",
   networkPassphrase |-> "Public Global Stellar Network ; September 2015"]

Mainnet == Str(<<"m", "a", "i", "n", "n", "e", "t">>)
Testnet == Str(<<"t", "e", "s", "t", "n", "e", "t">>)

\* variant: the contract of mainnet with the details of testnet
getNetworkConfigMixed(network) ==
  IF network = Mainnet
  THEN [stellarConfig |-> STELLAR_MAINNET, networkDetails |-> TESTNET_DETAILS]
  ELSE [stellarConfig |-> STELLAR_TESTNET, networkDetails |-> TESTNET_DETAILS]

getNetworkConfig(network) ==
  IF network = Mainnet
  THEN [stellarConfig |-> STELLAR_MAINNET, networkDetails |-> MAINNET_DETAILS]
  ELSE [stellarConfig |-> STELLAR_TESTNET, networkDetails |-> TESTNET_DETAILS]

\* network.toUpperCase(), as an outcome; the text itself is only logged
ToUpperCase(network) ==
  IF network.t = "string" THEN Return(network)
  ELSE IF network.t \in {"undefined", "null"}
  THEN Throw(<<"Cannot read properties of ", network.t,
               " (reading 'toUpperCase')">>)
  ELSE Throw(<<"network.toUpperCase is not a function">>)

\* variant: the length is not compared
bytesNUnchecked(buffer, length) ==
  IF buffer.t # "buffer" THEN Throw(<<"Expected Buffer or Uint8Array">>)
  ELSE Return(buffer)

\* bytesN(buffer, length)
bytesN(buffer, length) ==
  IF buffer.t # "buffer" THEN Throw(<<"Expected Buffer or Uint8Array">>)
  ELSE IF Len(buffer.b) # length
  THEN Throw(<<"Expected ">> \o Decimal(length) \o <<" bytes, got ">>
               \o Decimal(Len(buffer.b)))
  ELSE Return(buffer)

\* buffer.slice(start, end) of a Buffer, for 0 <= start <= end
Slice(buffer, start, end) ==
  Buf(SubSeq(buffer.b, start + 1,
             IF end < Len(buffer.b) THEN end ELSE Len(buffer.b)))

WalletError == "no wallet"

\* the wallet index of wallet.getSecret
SecretIndex == 0

\* createStellarWallet(); fromMnemonicThrows: the seed phrase is rejected
createStellarWallet(fromMnemonicThrows) ==
  IF fromMnemonicThrows
  THEN [out |-> Throw(<<"Failed to create Stellar wallet: ", WalletError>>),
        events |-> <<[e |-> "fromMnemonic"]>>]
  ELSE [out |-> Return([keypair |-> [secret |-> SecretIndex]]),
        events |-> <<[e |-> "fromMnemonic"],
                     [e |-> "getSecret", index |-> SecretIndex]>>]

\* Reclaim.transformForOnchain(proof) of @reclaimprotocol/js-sdk
transformForOnchain(proof) ==
  LET claimData == Get(proof, "claimData") IN
  IF claimData.kind = "throw" THEN claimData
  ELSE LET epoch == Get(claimData.val, "epoch") IN
  IF epoch.kind = "throw" THEN epoch
  ELSE LET d == claimData.val IN
  Return(Obj([claimInfo |-> Obj([context |-> Field(d, "context"),
                                 parameters |-> Field(d, "parameters"),
                                 provider |-> Field(d, "provider")]),
              signedClaim |->
                Obj([claim |-> Obj([epoch |-> Field(d, "epoch"),
                                    identifier |-> Field(d, "identifier"),
                                    owner |-> Field(d, "owner"),
                                    timestampS |-> Field(d, "timestampS")]),
                     signatures |-> Field(proof, "signatures")])]))

LoadFailed(msg) == Throw(<<"Failed to load proof: ">> \o msg)

\* v.length of a string or an array, undefined for any other value
LengthOf(v) ==
  IF v.t = "string" THEN Num(Len(v.s))
  ELSE IF v.t = "array" THEN Num(Len(v.a))
  ELSE Undefined

\* loadProof(proofPath) on the proof files fs, for a path that is not a
\* directory: its outcome and the file it read
loadProof(proofPath, fs) ==
  IF ~(proofPath.t = "string" /\ proofPath.s \in DOMAIN fs)
  THEN [out |-> LoadFailed(<<"Proof file not found: ">> \o ToStr(proofPath)),
        events |-> <<>>]
  ELSE
  LET read == <<[e |-> "readFileSync", path |-> proofPath.s]>>
      proofJson == JsonParse(fs[proofPath.s])
  IN
  IF proofJson.kind = "throw"
  THEN [out |-> LoadFailed(proofJson.msg), events |-> read]
  ELSE
  LET signatures == Get(proofJson.val, "signatures") IN
  IF signatures.kind = "throw"
  THEN [out |-> LoadFailed(signatures.msg), events |-> read]
  ELSE IF ~Truthy(signatures.val) \/ ~Truthy(LengthOf(signatures.val))
  THEN [out |-> LoadFailed(<<"Invalid proof: missing signatures">>),
        events |-> read]
  ELSE
  LET proof == transformForOnchain(proofJson.val) IN
  [out |-> IF proof.kind = "throw" THEN LoadFailed(proof.msg) ELSE proof,
   events |-> read \o <<[e |-> "transformForOnchain"]>>]

SubmitFailed(msg) == Throw(<<"Failed to submit transaction: ">> \o msg)

RpcError == "rpc down"
XdrError == "XDR Write Error: invalid u32 value"

\* the two definitions of verifyProof in verifyProof.js
Definitions == {"single-network", "network-aware"}

\* a call of verifyProof that has not started to run
VerifyCalled(def, proofPath, network) ==
  [pc |-> "called", def |-> def, proofPath |-> proofPath, network |-> network]

\* the account lookup submitVerificationTransaction starts with
AccountLookup(def, network) ==
  IF def = "single-network"
  THEN [e |-> "account lookup", by |-> "server.loadAccount",
        url |-> TESTNET_DETAILS.networkUrl]
  ELSE [e |-> "account lookup", by |-> "rpcServer.getAccount",
        url |-> getNetworkConfig(network).stellarConfig.SOROBAN_RPC_URL]

\* what verifyProof goes on with after its synchronous part: the failure,
\* or the keypair and the payload of the submission
Verified(wallet, proofData, events) ==
  [out |-> IF wallet.out.kind = "throw" THEN wallet.out
           ELSE IF proofData.out.kind = "throw" THEN proofData.out
           ELSE Return([keypair |-> wallet.out.val.keypair,
                        proofData |-> proofData.out.val]),
   events |-> events, calls |-> proofData.calls]

NotVerified(out, events) == [out |-> out, events |-> events, calls |-> <<>>]

\* verifyProof of the single-network definition with its wallet and the
\* outcome of loadProof
SingleLoaded(wallet, proof, keccakThrows) ==
  IF proof.out.kind = "throw"
  THEN NotVerified(proof.out, wallet.events \o proof.events)
  ELSE Verified(wallet, prepareProofData(proof.out.val, keccakThrows),
                wallet.events \o proof.events)

\* verifyProof of the single-network definition up to its first await: the
\* wallet, the proof, the payload
verifyProofSingle(proofPath, fs, wallet, keccakThrows) ==
  IF wallet.out.kind = "throw"
  THEN NotVerified(wallet.out, wallet.events)
  ELSE SingleLoaded(wallet, loadProof(proofPath, fs), keccakThrows)

\* verifyProof of the network-aware definition with its payload: the wallet
\* is created
NetworkPrepared(proof, proofData, wallet) ==
  IF proofData.out.kind = "throw"
  THEN [out |-> proofData.out, events |-> proof.events,
        calls |-> proofData.calls]
  ELSE Verified(wallet, proofData, proof.events \o wallet.events)

\* verifyProof of the network-aware definition with the outcome of loadProof
NetworkLoaded(proof, wallet, keccakThrows) ==
  IF proof.out.kind = "throw"
  THEN NotVerified(proof.out, proof.events)
  ELSE NetworkPrepared(proof, prepareProofData(proof.out.val, keccakThrows),
                       wallet)

\* verifyProof of the network-aware definition up to its first await: the
\* network, the proof, the payload, the wallet
verifyProofNetwork(proofPath, network, fs, wallet, keccakThrows) ==
  IF ToUpperCase(network).kind = "throw"
  THEN NotVerified(ToUpperCase(network), <<>>)
  ELSE NetworkLoaded(loadProof(proofPath, fs), wallet, keccakThrows)

\* the state verifyProof reaches with the outcome r of its synchronous part
VerifyStarted(r, proofPath, network) ==
  /\ keccakCalls' = keccakCalls \o r.calls
  /\ IF r.out.kind = "throw"
     THEN /\ vf' = [pc |-> "done", def |-> vf.def,
                    proofPath |-> proofPath, network |-> network,
                    out |-> r.out]
          /\ log' = log \o r.events
     ELSE /\ vf' = [pc |-> "account", def |-> vf.def,
                    proofPath |-> proofPath, network |-> network,
                    keypair |-> r.out.val.keypair,
                    proofData |-> r.out.val.proofData]
          /\ log' = (log \o r.events) \o <<AccountLookup(vf.def, network)>>

\* verifyProof up to the account lookup of submitVerificationTransaction
VerifyStart ==
  /\ vf.pc = "called"
  /\ \E fromMnemonicThrows \in BOOLEAN, keccakThrows \in BOOLEAN :
       IF vf.def = "single-network"
       THEN VerifyStarted(
              verifyProofSingle(Default(vf.proofPath, PROOF_FILE), files,
                                createStellarWallet(fromMnemonicThrows),
                                keccakThrows),
              Default(vf.proofPath, PROOF_FILE), Default(vf.network, Testnet))
       ELSE VerifyStarted(
              verifyProofNetwork(Default(vf.proofPath, PROOF_FILE),
                                 Default(vf.network, Testnet), files,
                                 createStellarWallet(fromMnemonicThrows),
                                 keccakThrows),
              Default(vf.proofPath, PROOF_FILE), Default(vf.network, Testnet))
  /\ UNCHANGED <<pc, op, arg, result, entry, files, rq, wf, cli>>

MessageLen == 32
SignatureLen == 64

\* variant: the signature is passed before the message
BuildTransactionSwapped(def, network, proofData) ==
  Return([e |-> "build", contract |-> STELLAR.CONTRACT_ID,
          function |-> STELLAR.FUNCTION_NAME,
          args |-> <<proofData.f.signature, proofData.f.message,
                     [u32 |-> proofData.f.recId]>>,
          fee |-> STELLAR.BASE_FEE,
          networkPassphrase |-> TESTNET_DETAILS.networkPassphrase])

\* the transaction submitVerificationTransaction builds once the account is
\* known, as an outcome: one call of the contract function with the payload
BuildTransaction(def, network, proofData) ==
  LET message == proofData.f.message
      signature == proofData.f.signature
      recId == proofData.f.recId
  IN
  IF def = "single-network"
  THEN Return([e |-> "build", contract |-> STELLAR.CONTRACT_ID,
               function |-> STELLAR.FUNCTION_NAME,
               args |-> <<message, signature, [u32 |-> recId]>>,
               fee |-> STELLAR.BASE_FEE,
               networkPassphrase |-> TESTNET_DETAILS.networkPassphrase])
  ELSE
  LET config == getNetworkConfig(network)
      m == bytesN(message, MessageLen)
      s == bytesN(Slice(signature, 0, SignatureLen), SignatureLen)
  IN
  IF m.kind = "throw" THEN m
  ELSE IF s.kind = "throw" THEN s
  ELSE Return([e |-> "build", contract |-> config.stellarConfig.CONTRACT_ID,
               function |-> config.stellarConfig.FUNCTION_NAME,
               args |-> <<m.val, s.val, [u32 |-> recId]>>,
               fee |-> config.stellarConfig.BASE_FEE,
               networkPassphrase |-> config.networkDetails.networkPassphrase])

VerifyDone(out) ==
  [pc |-> "done", def |-> vf.def, proofPath |-> vf.proofPath,
   network |-> vf.network, out |-> out]

\* variant: a rejected account lookup is made again
VerifyAccountSettlesRetrying ==
  /\ vf.pc = "account"
  /\ \E rejected \in BOOLEAN :
       IF rejected
       THEN /\ vf' = vf
            /\ log' = Append(log, AccountLookup(vf.def, vf.network))
       ELSE LET tx == BuildTransaction(vf.def, vf.network, vf.proofData) IN
            IF tx.kind = "throw"
            THEN /\ vf' = VerifyDone(SubmitFailed(tx.msg))
                 /\ log' = log
            ELSE /\ vf' = [vf EXCEPT !.pc = "prepare"]
                 /\ log' = log \o <<tx.val, [e |-> "prepareTransaction"]>>
  /\ UNCHANGED <<pc, op, arg, result, keccakCalls, entry, files, rq, wf, cli>>

\* the account lookup settles; with the account the transaction is built
\* and handed to prepareTransaction
VerifyAccountSettles ==
  /\ vf.pc = "account"
  /\ \E rejected \in BOOLEAN :
       IF rejected
       THEN /\ vf' = VerifyDone(SubmitFailed(<<RpcError>>))
            /\ log' = log
       ELSE LET tx == BuildTransaction(vf.def, vf.network, vf.proofData) IN
            IF tx.kind = "throw"
            THEN /\ vf' = VerifyDone(SubmitFailed(tx.msg))
                 /\ log' = log
            ELSE /\ vf' = [vf EXCEPT !.pc = "prepare"]
                 /\ log' = log \o <<tx.val, [e |-> "prepareTransaction"]>>
  /\ UNCHANGED <<pc, op, arg, result, keccakCalls, entry, files, rq, wf, cli>>

\* prepareTransaction settles: it serializes the transaction, which fails
\* for a recovery id that is not a number, and simulates it on the server;
\* the prepared transaction is signed and sent
VerifyPrepareSettles ==
  /\ vf.pc = "prepare"
  /\ \E rejected \in BOOLEAN :
       IF vf.proofData.f.recId.t # "number"
       THEN /\ vf' = VerifyDone(SubmitFailed(<<XdrError>>))
            /\ log' = log
       ELSE IF rejected
       THEN /\ vf' = VerifyDone(SubmitFailed(<<RpcError>>))
            /\ log' = log
       ELSE /\ vf' = [vf EXCEPT !.pc = "send"]
            /\ log' = log \o <<[e |-> "sign", keypair |-> vf.keypair],
                               [e |-> "sendTransaction"]>>
  /\ UNCHANGED <<pc, op, arg, result, keccakCalls, entry, files, rq, wf, cli>>

TxHash == Str(<<"t", "x", "h", "a", "s", "h">>)

\* what sendTransaction resolves to: the server took the transaction or
\* answered with an error status
SendResults ==
  {Obj([hash |-> TxHash, status |-> Str(<<"P", "E", "N", "D", "I", "N", "G">>)]),
   Obj([hash |-> TxHash, status |-> Str(<<"E", "R", "R", "O", "R">>)])}

\* the transaction link submitVerificationTransaction prints
TransactionLink(def, network, hash) ==
  IF def = "single-network"
  THEN <<STELLAR.EXPLORER_LINK>> \o hash.s
  ELSE <<getNetworkConfig(network).stellarConfig.EXPLORER_LINK>> \o hash.s

\* variant: the continuation after sendTransaction never runs
VerifySendSettlesHangs ==
  /\ vf.pc = "send"
  /\ UNCHANGED vars

\* sendTransaction settles; verifyProof returns sendResult.hash
VerifySendSettles ==
  /\ vf.pc = "send"
  /\ \/ vf' = VerifyDone(SubmitFailed(<<RpcError>>))
     \/ \E sendResult \in SendResults :
          vf' = [pc |-> "done", def |-> vf.def, proofPath |-> vf.proofPath,
                 network |-> vf.network, keypair |-> vf.keypair,
                 proofData |-> vf.proofData, sendResult |-> sendResult,
                 link |-> TransactionLink(vf.def, vf.network,
                                          sendResult.f.hash),
                 out |-> Return(sendResult.f.hash)]
  /\ UNCHANGED <<pc, op, arg, result, keccakCalls, entry, files, log, rq, wf,
                 cli>>

----------------------------------------------------------------------------
(* index.js: the application class and its workflow                        *)

Bool(b) == [t |-> "boolean", b |-> b]

\* a call of runCompleteWorkflow that has not started to run; def is the
\* definition of verifyProof the application imports
WorkflowCalled(def, proofPath) ==
  [pc |-> "called", def |-> def, proofPath |-> proofPath]

\* runCompleteWorkflow up to its first await: requestStellarPriceProof
\* calls requestProof(proofPath, 'stellar')
WorkflowStart ==
  /\ wf.pc = "called"
  /\ LET proofPath == Default(wf.proofPath, PROOF_FILE) IN
     /\ wf' = [pc |-> "request", def |-> wf.def, proofPath |-> proofPath]
     /\ rq' = RequestCalled(proofPath, Stellar)
     /\ log' = Append(log, [e |-> "requestProof", outputPath |-> proofPath,
                            proofType |-> Stellar])
  /\ UNCHANGED <<pc, op, arg, result, keccakCalls, entry, files, vf, cli>>

\* variant: the failure is thrown again
WorkflowRethrows(out) == Throw(out.msg)

WorkflowFailed(out) ==
  Return(Obj([error |-> Str(out.msg), success |-> Bool(FALSE)]))

\* requestProof has settled: its failure is caught, or verifyProofOnStellar
\* calls verifyProof(proofPath)
WorkflowRequestSettles ==
  /\ wf.pc = "request"
  /\ rq.pc = "done"
  /\ IF rq.out.kind = "throw"
     THEN /\ wf' = [pc |-> "done", def |-> wf.def, proofPath |-> wf.proofPath,
                    out |-> WorkflowFailed(rq.out)]
          /\ UNCHANGED <<vf, log>>
     ELSE /\ wf' = [pc |-> "verify", def |-> wf.def,
                    proofPath |-> wf.proofPath, proof |-> rq.out.val]
          /\ vf' = VerifyCalled(wf.def, wf.proofPath, Undefined)
          /\ log' = Append(log, [e |-> "verifyProof",
                                 proofPath |-> wf.proofPath])
  /\ UNCHANGED <<pc, op, arg, result, keccakCalls, entry, files, rq, cli>>

\* verifyProof has settled: the workflow returns its result
WorkflowVerifySettles ==
  /\ wf.pc = "verify"
  /\ vf.pc = "done"
  /\ wf' = [pc |-> "done", def |-> wf.def, proofPath |-> wf.proofPath,
            out |-> IF vf.out.kind = "throw" THEN WorkflowFailed(vf.out)
                    ELSE Return(Obj([proof |-> wf.proof,
                                     transactionHash |-> vf.out.val,
                                     success |-> Bool(TRUE)]))]
  /\ UNCHANGED <<pc, op, arg, result, keccakCalls, entry, files, log, rq, vf,
                 cli>>

----------------------------------------------------------------------------
(* The command lines of requestProof.js, verifyProof.js and index.js       *)

CmdRequest == Str(<<"r", "e", "q", "u", "e", "s", "t">>)
CmdRequestProof ==
  Str(<<"r", "e", "q", "u", "e", "s", "t", "-", "p", "r", "o", "o", "f">>)
CmdRequestTradingEconomics ==
  Str(<<"r", "e", "q", "u", "e", "s", "t", "-", "t", "r", "a", "d", "i",
        "n", "g", "-", "e", "c", "o", "n", "o", "m", "i", "c", "s">>)
CmdRequestForbes ==
  Str(<<"r", "e", "q", "u", "e", "s", "t", "-", "f", "o", "r", "b", "e",
        "s">>)
CmdRequestAccuWeather ==
  Str(<<"r", "e", "q", "u", "e", "s", "t", "-", "a", "c", "c", "u", "w",
        "e", "a", "t", "h", "e", "r">>)
CmdRequestGoal ==
  Str(<<"r", "e", "q", "u", "e", "s", "t", "-", "g", "o", "a", "l">>)
CmdVerify == Str(<<"v", "e", "r", "i", "f", "y">>)
CmdVerifyProof ==
  Str(<<"v", "e", "r", "i", "f", "y", "-", "p", "r", "o", "o", "f">>)
CmdWorkflow == Str(<<"w", "o", "r", "k", "f", "l", "o", "w">>)
CmdComplete == Str(<<"c", "o", "m", "p", "l", "e", "t", "e">>)
CmdInfo == Str(<<"i", "n", "f", "o">>)
CmdOther == Str(<<"h", "e", "l", "p">>)
FlagMainnet == Str(<<"-", "-", "m", "a", "i", "n", "n", "e", "t">>)
FlagTestnet == Str(<<"-", "-", "t", "e", "s", "t", "n", "e", "t">>)
FlagOther == Str(<<"-", "-", "x">>)
UnknownType == Str(<<"u", "n", "k", "n", "o", "w", "n">>)


\* process.argv[i + 1]: the i-th argument after the script name
Argv(args, i) == IF i <= Len(args) THEN args[i] ELSE Undefined

\* process.argv[i + 1] || d
ArgOr(args, i, d) == IF Truthy(Argv(args, i)) THEN Argv(args, i) ELSE d

StartsWithDashes(v) == Len(v.s) >= 2 /\ v.s[1] = "-" /\ v.s[2] = "-"

\* parseCliArgs() of verifyProof.js, from the values found so far
RECURSIVE ParseCliArgs(_, _)
ParseCliArgs(args, found) ==
  IF args = <<>> THEN found
  ELSE LET a == Head(args) IN
       ParseCliArgs(Tail(args),
                    IF a = FlagMainnet THEN [found EXCEPT !.network = Mainnet]
                    ELSE IF a = FlagTestnet
                    THEN [found EXCEPT !.network = Testnet]
                    ELSE IF ~StartsWithDashes(a)
                    THEN [found EXCEPT !.proofPath = a]
                    ELSE found)

parseCliArgs(args) ==
  ParseCliArgs(args, [network |-> Testnet, proofPath |-> PROOF_FILE])

\* the method of the application the switch of main of index.js calls, and
\* the proof type the method passes on
IndexCommand(command) ==
  CASE command \in {CmdRequest, CmdRequestProof} ->
         [call |-> "requestProof", proofType |-> Stellar]
    [] command = CmdRequestTradingEconomics ->
         [call |-> "requestProof", proofType |-> TradingEconomics]
    [] command = CmdRequestForbes ->
         [call |-> "requestProof", proofType |-> Forbes]
    [] command = CmdRequestAccuWeather ->
         [call |-> "requestProof", proofType |-> AccuWeather]
    [] command = CmdRequestGoal ->
         [call |-> "requestProof", proofType |-> Goal]
    [] command \in {CmdVerify, CmdVerifyProof} -> [call |-> "verifyProof"]
    [] command \in {CmdWorkflow, CmdComplete} ->
         [call |-> "runCompleteWorkflow"]
    [] OTHER -> [call |-> "none"]

\* a command line that has not started to run; def is the definition of
\* verifyProof in verifyProof.js
CliStarted(program, def, args) ==
  [pc |-> "started", program |-> program, def |-> def, args |-> args]

CliAwaits(call) ==
  [pc |-> "awaits", program |-> cli.program, def |-> cli.def,
   args |-> cli.args, call |-> call]

CliExited(call, status) ==
  [pc |-> "exited", program |-> cli.program, def |-> cli.def,
   args |-> cli.args, call |-> call, status |-> status]

\* main of requestProof.js up to its await
RequestMainStart ==
  /\ cli.pc = "started"
  /\ cli.program = "requestProof.js"
  /\ rq' = RequestCalled(ArgOr(cli.args, 2, PROOF_FILE),
                         ArgOr(cli.args, 1, Stellar))
  /\ cli' = CliAwaits("requestProof")
  /\ UNCHANGED <<pc, op, arg, result, keccakCalls, entry, files, log, vf, wf>>

\* main of verifyProof.js up to its await
VerifyMainStart ==
  /\ cli.pc = "started"
  /\ cli.program = "verifyProof.js"
  /\ vf' = IF cli.def = "single-network"
           THEN VerifyCalled(cli.def, ArgOr(cli.args, 1, PROOF_FILE), Undefined)
           ELSE LET parsed == parseCliArgs(cli.args) IN
                VerifyCalled(cli.def, parsed.proofPath, parsed.network)
  /\ cli' = CliAwaits("verifyProof")
  /\ UNCHANGED <<pc, op, arg, result, keccakCalls, entry, files, log, rq, wf>>

\* main of index.js up to its await; without an await main returns and the
\* process ends
IndexMainStart ==
  /\ cli.pc = "started"
  /\ cli.program = "index.js"
  /\ LET command == Argv(cli.args, 1)
         selected == IndexCommand(command)
     IN
     /\ cli' = IF selected.call = "none" THEN CliExited("none", 0)
               ELSE CliAwaits(selected.call)
     /\ rq' = IF selected.call = "requestProof"
              THEN RequestCalled(Undefined, selected.proofType) ELSE rq
     /\ vf' = IF selected.call = "verifyProof"
              THEN VerifyCalled(cli.def, Undefined, Undefined) ELSE vf
     /\ wf' = IF selected.call = "runCompleteWorkflow"
              THEN WorkflowCalled(cli.def, Undefined) ELSE wf
  /\ UNCHANGED <<pc, op, arg, result, keccakCalls, entry, files, log>>

\* the outcome of the call a command line awaits, once it has settled
Awaited ==
  CASE cli.call = "requestProof" -> rq
    [] cli.call = "verifyProof" -> vf
    [] cli.call = "runCompleteWorkflow" -> wf

\* main of requestProof.js and of verifyProof.js after the await:
\* process.exit(0), or process.exit(1) in the catch
MainExits ==
  /\ cli.pc = "awaits"
  /\ cli.program \in {"requestProof.js", "verifyProof.js"}
  /\ Awaited.pc = "done"
  /\ cli' = CliExited(cli.call, IF Awaited.out.kind = "throw" THEN 1 ELSE 0)
  /\ UNCHANGED <<pc, op, arg, result, keccakCalls, entry, files, log, rq, vf,
                 wf>>

\* main of index.js after the await: main returns, or it rejects and
\* console.error prints the rejection; nothing sets an exit code, and the
\* process ends with status 0
IndexMainEnds ==
  /\ cli.pc = "awaits"
  /\ cli.program = "index.js"
  /\ Awaited.pc = "done"
  /\ cli' = CliExited(cli.call, 0)
  /\ UNCHANGED <<pc, op, arg, result, keccakCalls, entry, files, log, rq, vf,
                 wf>>

----------------------------------------------------------------------------
(* The state machine of the entry points: one call of requestProof, of     *)
(* verifyProof or of runCompleteWorkflow, or one run of a command line     *)

PathArgs ==
  {Undefined, Null, Str(<<>>), Num(5), PROOF_FILE, MissingDirPath,
   FileDirPath, BarePath}

TypeArgs == SupportedTypes \cup {Undefined, Null, UnknownType, Str(<<>>)}

NetworkArgs ==
  {Undefined, Null, Testnet, Mainnet, Str(<<"x">>),
   Str(<<"M", "A", "I", "N", "N", "E", "T">>)}

\* what a proof file can hold
Contents ==
  {NotJson, JsonText(Null), JsonText(Obj(<<>>)),
   JsonText(Attestation(ClaimData, ShortSignature))}
    \cup {JsonText(proof) : proof \in Attestations}
    \cup {JsonText(Attestation(claimData, Arr(<<BareSignature>>))) :
            claimData \in OutOfRangeClaimData}

\* the proof files there can be before a run
FilesOf(contents) ==
  {<<>>} \cup {WriteFile(<<>>, PROOF_FILE.s, c) : c \in contents}
    \cup {WriteFile(WriteFile(<<>>, PROOF_FILE.s, NotJson), BarePath.s, c) :
            c \in contents}

FewContents ==
  {NotJson, JsonText(Attestation(ClaimData, Arr(<<BareSignature>>)))}

RequestMainArgs ==
  {<<>>, <<Str(<<>>)>>, <<Goal>>, <<UnknownType>>, <<Stellar, BarePath>>,
   <<Forbes, MissingDirPath>>}

VerifyMainArgs ==
  {<<>>, <<BarePath>>, <<FlagMainnet>>, <<FlagMainnet, BarePath>>,
   <<BarePath, FlagTestnet>>, <<FlagOther>>}

IndexMainArgs ==
  {<<>>, <<CmdRequest>>, <<CmdRequestProof>>, <<CmdRequestTradingEconomics>>,
   <<CmdRequestForbes>>, <<CmdRequestAccuWeather>>, <<CmdRequestGoal>>,
   <<CmdVerify>>, <<CmdVerifyProof>>, <<CmdWorkflow>>, <<CmdComplete>>,
   <<CmdInfo>>, <<CmdOther>>}

InitApp ==
  /\ pc = "entry"
  /\ op = "none"
  /\ arg = Undefined
  /\ result = [kind |-> "none"]
  /\ keccakCalls = <<>>
  /\ log = <<>>
  /\ \/ /\ entry = [kind |-> "requestProof"]
        /\ files \in FilesOf(FewContents)
        /\ \E outputPath \in PathArgs, proofType \in TypeArgs :
             rq = RequestCalled(outputPath, proofType)
        /\ vf = Idle /\ wf = Idle /\ cli = Idle
     \/ /\ entry = [kind |-> "verifyProof"]
        /\ files \in FilesOf(Contents)
        /\ \E def \in Definitions, proofPath \in {Undefined, Null, BarePath},
              network \in NetworkArgs :
             vf = VerifyCalled(def, proofPath, network)
        /\ rq = Idle /\ wf = Idle /\ cli = Idle
     \/ /\ entry = [kind |-> "runCompleteWorkflow"]
        /\ files \in FilesOf(FewContents)
        /\ \E def \in Definitions,
              proofPath \in {Undefined, MissingDirPath, BarePath} :
             wf = WorkflowCalled(def, proofPath)
        /\ rq = Idle /\ vf = Idle /\ cli = Idle
     \/ /\ entry = [kind |-> "command line"]
        /\ files \in FilesOf(FewContents)
        /\ \/ \E args \in RequestMainArgs :
                cli = CliStarted("requestProof.js", "network-aware", args)
           \/ \E def \in Definitions, args \in VerifyMainArgs :
                cli = CliStarted("verifyProof.js", def, args)
           \/ \E args \in IndexMainArgs :
                cli = CliStarted("index.js", "network-aware", args)
        /\ rq = Idle /\ vf = Idle /\ wf = Idle

NextApp ==
  \/ RequestStart
  \/ RequestSettles
  \/ VerifyStart
  \/ VerifyAccountSettles
  \/ VerifyPrepareSettles
  \/ VerifySendSettles
  \/ WorkflowStart
  \/ WorkflowRequestSettles
  \/ WorkflowVerifySettles
  \/ RequestMainStart
  \/ VerifyMainStart
  \/ IndexMainStart
  \/ MainExits
  \/ IndexMainEnds

SpecApp == InitApp /\ [][NextApp]_vars

\* the steps of NextApp other than VerifyStart
NextAppOther ==
  \/ RequestStart
  \/ RequestSettles
  \/ VerifyAccountSettles
  \/ VerifyPrepareSettles
  \/ VerifySendSettles
  \/ WorkflowStart
  \/ WorkflowRequestSettles
  \/ WorkflowVerifySettles
  \/ RequestMainStart
  \/ VerifyMainStart
  \/ IndexMainStart
  \/ MainExits
  \/ IndexMainEnds

\* weak fairness of VerifyStart, with ENABLED <<VerifyStart>>_vars written as
\* the state predicate it equals: a called verifyProof can always run its
\* synchronous part, and running it leaves the position "called"
VerifyStartFair == []<>(vf.pc # "called") \/ []<><<VerifyStart>>_vars

\* every external call settles and the continuation of a settled await is
\* run: a step that can be taken is taken
SpecAppFair == SpecApp /\ WF_vars(NextAppOther) /\ VerifyStartFair

----------------------------------------------------------------------------
(* Properties of the entry points                                          *)

\* the positions of the log where step e was taken
Events(e) == {i \in DOMAIN log : log[i].e = e}

Occurred(e) == Events(e) # {}

WalletSteps == {"fromMnemonic", "getSecret"}
NetworkSteps == {"account lookup", "prepareTransaction", "sendTransaction"}

\* the proof file of the verification parses to an object whose signatures
\* are an empty array
EmptySignaturesFile ==
  /\ vf.proofPath.t = "string"
  /\ vf.proofPath.s \in DOMAIN files
  /\ files[vf.proofPath.s].kind = "json"
  /\ Field(files[vf.proofPath.s].value, "signatures") = Arr(<<>>)

\* C12: in both definitions of verifyProof, with a network that is a string,
\* a proof file whose signatures array is empty makes verifyProof fail with
\* the missing-signatures error, and no wallet was derived and no network
\* call made when it fails.
EmptySignaturesFailBeforeWallet ==
  (vf.pc \notin {"idle", "called"}
     /\ vf.network.t = "string"
     /\ EmptySignaturesFile)
    => /\ vf.pc = "done"
       /\ vf.out = Throw(<<"Failed to load proof: ",
                           "Invalid proof: missing signatures">>)
       /\ \A e \in WalletSteps \cup NetworkSteps : ~Occurred(e)

\* the parent directory of the output path of the request exists and is a
\* directory
ParentIsDirectory == Dirname(rq.outputPath.s) \in Directories

NonEmptyString(v) == v.t = "string" /\ Len(v.s) > 0

ValidOutputPath == NonEmptyString(rq.outputPath) /\ ParentIsDirectory

UnknownTypeMessage ==
  <<"Unknown proof type: ">> \o ToStr(rq.proofType)
    \o <<". Supported types: 'stellar', 'trading-economics', 'forbes', 'accuweather', 'goal'">>

RequestRan == rq.pc \notin {"idle", "called"}

\* C13 as stated: requestProof with a valid output path and a proof type
\* outside the five supported ones fails with the error that names the type
\* and lists the supported ones, without a zkFetch call or a write.
UnknownTypeAlwaysNamed ==
  (RequestRan /\ ValidOutputPath /\ rq.proofType \notin SupportedTypes)
    => /\ rq.pc = "done"
       /\ rq.out = Throw(UnknownTypeMessage)
       /\ ~Occurred("zkFetch")
       /\ ~Occurred("writeFileSync")

\* C13: requestProof with a valid output path and a proof type outside the
\* five supported ones fails without a zkFetch call or a write; the error
\* names the type and lists the supported ones, unless the client could not
\* be created, which is then the error.
UnknownTypeNamedOrNoClient ==
  (RequestRan /\ ValidOutputPath /\ rq.proofType \notin SupportedTypes)
    => /\ rq.pc = "done"
       /\ \/ rq.out = Throw(UnknownTypeMessage)
          \/ rq.out = Throw(<<"Failed to create Reclaim client: ", ClientError>>)
       /\ ~Occurred("zkFetch")
       /\ ~Occurred("writeFileSync")

\* the type null was rejected by name after the client had been created
UnknownTypeReached ==
  /\ RequestRan
  /\ ValidOutputPath
  /\ rq.proofType = Null
  /\ Occurred("new ReclaimClient")
  /\ rq.out = Throw(<<"Unknown proof type: ", "n", "u", "l", "l",
                      ". Supported types: 'stellar', 'trading-economics', 'forbes', 'accuweather', 'goal'">>)

\* C14: requestProof with an output path that is not a non-empty string, or
\* whose parent directory is missing or not a directory, fails with the
\* error of that case before the client is created and zkFetch called, and
\* writes nothing, for every proof type.
InvalidPathFailsFirst ==
  (RequestRan /\ ~ValidOutputPath)
    => /\ rq.pc = "done"
       /\ rq.out =
            IF ~NonEmptyString(rq.outputPath)
            THEN Throw(<<"Output path must be a valid string">>)
            ELSE IF Dirname(rq.outputPath.s) \in RegularFiles \cup DOMAIN files
            THEN Throw(<<"Path is not a directory: ">>
                         \o Dirname(rq.outputPath.s))
            ELSE Throw(<<"Directory does not exist: ">>
                         \o Dirname(rq.outputPath.s))
       /\ ~Occurred("new ReclaimClient")
       /\ ~Occurred("zkFetch")
       /\ ~Occurred("writeFileSync")

\* a request for an unsupported type failed on the missing directory
MissingDirectoryReached ==
  /\ rq.pc = "done"
  /\ rq.outputPath = MissingDirPath
  /\ rq.proofType = UnknownType
  /\ rq.out = Throw(<<"Directory does not exist: ", ".", "/", "n", "o">>)
  /\ log = <<>>

\* C15: when requestProof succeeds the file at outputPath was written
\* exactly once, after zkFetch had returned; it holds the JSON text of the
\* attestation zkFetch returned and nothing of what it held before, and
\* that attestation is the value returned.
SavedOnceAndReturned ==
  (rq.pc = "done" /\ rq.out.kind = "return")
    => /\ Cardinality(Events("writeFileSync")) = 1
       /\ \A w \in Events("writeFileSync") :
            /\ \E s \in Events("zkFetch settled") : s < w
            /\ log[w].path = rq.outputPath.s
            /\ log[w].data = files[rq.outputPath.s]
       /\ files[rq.outputPath.s] =
            [kind |-> "json", value |-> JsonValue(rq.settled.val)]
       /\ rq.out.val = rq.settled.val

\* a request succeeded whose write replaced the JSON text of another
\* attestation
OverwriteReached ==
  /\ rq.pc = "done"
  /\ rq.out.kind = "return"
  /\ \E w \in Events("writeFileSync") :
       /\ log[w].before.kind = "json"
       /\ log[w].before # log[w].data
       /\ files[log[w].path] = log[w].data

\* the URL, method and extraction patterns configured for a proof type
ConfiguredFor(proofType) ==
  CASE proofType = Stellar ->
         [url |-> COINGECKO_STELLAR_PRICE, method |-> "GET",
          responseMatches |-> <<"price">>]
    [] proofType = TradingEconomics ->
         [url |-> TRADING_ECONOMICS_COUNTRIES, method |-> "GET",
          responseMatches |-> <<"country1 gdp1 .. country5 gdp5">>]
    [] proofType = Forbes ->
         [url |-> FORBES_BILLIONAIRES, method |-> "GET",
          responseMatches |-> <<"name1 rank1 worth1 .. name5 rank5 worth5">>]
    [] proofType = AccuWeather ->
         [url |-> ACCUWEATHER_NYC, method |-> "GET",
          responseMatches |-> <<"city", "tempInC">>]
    [] proofType = Goal ->
         [url |-> GOAL_LIVE_SCORES, method |-> "GET",
          responseMatches |-> <<"team1 team2 score1 score2">>]

\* the zkFetch call at position i of the log is the one configured for the
\* proof type of the request
CallIsConfigured(i) ==
  /\ log[i].call.url = ConfiguredFor(rq.proofType).url
  /\ log[i].call.method = ConfiguredFor(rq.proofType).method
  /\ log[i].call.responseMatches = ConfiguredFor(rq.proofType).responseMatches

ClientFailed ==
  /\ rq.pc = "done"
  /\ rq.out = Throw(<<"Failed to create Reclaim client: ", ClientError>>)

\* C16 as stated: a settled requestProof(path, k) with a valid path and a
\* supported type k has called zkFetch exactly once, with the URL, method
\* GET and patterns configured for k.
EachTypeFetchesOnce ==
  (rq.pc = "done" /\ ValidOutputPath /\ rq.proofType \in SupportedTypes)
    => /\ Cardinality(Events("zkFetch")) = 1
       /\ \A i \in Events("zkFetch") : CallIsConfigured(i)

\* C16: requestProof(path, k) with a valid path and a supported type k calls
\* zkFetch exactly once when the client could be created and not at all
\* when it could not; the call has the URL, method GET and patterns
\* configured for k, never those of another type.
EachTypeFetchesOnceWithClient ==
  (RequestRan /\ ValidOutputPath /\ rq.proofType \in SupportedTypes)
    => /\ Cardinality(Events("zkFetch")) = IF ClientFailed THEN 0 ELSE 1
       /\ \A i \in Events("zkFetch") : CallIsConfigured(i)

\* a request of type goal has settled after its one call of zkFetch
GoalFetchReached ==
  /\ rq.pc = "done"
  /\ rq.proofType = Goal
  /\ Cardinality(Events("zkFetch")) = 1
  /\ \A i \in Events("zkFetch") : log[i].call.url = GOAL_LIVE_SCORES

SubmissionSteps ==
  <<"account lookup", "build", "prepareTransaction", "sign",
    "sendTransaction">>

IsSubmissionStep(event) ==
  \E i \in DOMAIN SubmissionSteps : event.e = SubmissionSteps[i]

VerifySucceeded == vf.pc = "done" /\ vf.out.kind = "return"

\* C17: in a successful verifyProof the steps account lookup, build of the
\* transaction, prepareTransaction, signing and sendTransaction were taken
\* in this order, each once; the transaction is one call of verify_proof
\* with (message digest, signature body, recovery id as u32) and the base
\* fee of the configuration; the signing key is the one of wallet index 0;
\* the value returned is the hash of the result of sendTransaction.
SubmissionInOrder ==
  VerifySucceeded =>
    LET steps == SelectSeq(log, IsSubmissionStep) IN
    /\ [i \in DOMAIN steps |-> steps[i].e] = SubmissionSteps
    /\ steps[2].function = "verify_proof"
    /\ steps[2].args = <<vf.proofData.f.message, vf.proofData.f.signature,
                         [u32 |-> vf.proofData.f.recId]>>
    /\ steps[2].fee = "100"
    /\ Cardinality(Events("fromMnemonic")) = 1
    /\ \A i \in Events("getSecret") : log[i].index = 0
    /\ steps[4].keypair = [secret |-> 0]
    /\ vf.out.val = vf.sendResult.f.hash

\* a verification on mainnet succeeded with a 64-byte signature and
\* recovery id 1
MainnetSubmissionReached ==
  /\ VerifySucceeded
  /\ vf.def = "network-aware"
  /\ vf.network = Mainnet
  /\ Len(vf.proofData.f.signature.b) = 64
  /\ vf.proofData.f.recId = Num(1)
  /\ \E i \in Events("build") :
       log[i].contract = STELLAR_MAINNET.CONTRACT_ID
  /\ vf.out.val = TxHash

WorkflowRan == wf.pc \notin {"idle", "called"}

FailureResult(out) ==
  Return(Obj([error |-> Str(out.msg), success |-> Bool(FALSE)]))

\* C18: runCompleteWorkflow(path) calls requestProof(path, 'stellar') first
\* and verifyProof(path) only after requestProof has resolved; it never
\* rejects; a failure of either step gives {error: message, success: false},
\* and after a failed request verifyProof is not called; when both succeed
\* the result is {proof, transactionHash, success: true}.
WorkflowRequestsThenVerifies ==
  WorkflowRan =>
    /\ Cardinality(Events("requestProof")) = 1
    /\ \A r \in Events("requestProof") :
         /\ log[r].outputPath = wf.proofPath
         /\ log[r].proofType = Stellar
         /\ \A i \in DOMAIN log : r <= i
    /\ Cardinality(Events("verifyProof")) <= 1
    /\ \A v \in Events("verifyProof") :
         /\ log[v].proofPath = wf.proofPath
         /\ rq.pc = "done" /\ rq.out.kind = "return"
         /\ \A i \in Events("zkFetch") \cup Events("zkFetch settled")
                       \cup Events("writeFileSync") : i < v
    /\ (vf.pc # "idle") => Occurred("verifyProof")
    /\ (rq.pc = "done" /\ rq.out.kind = "throw") => vf.pc = "idle"
    /\ (wf.pc = "done") =>
         /\ rq.pc = "done"
         /\ wf.out =
              IF rq.out.kind = "throw" THEN FailureResult(rq.out)
              ELSE IF vf.out.kind = "throw" THEN FailureResult(vf.out)
              ELSE Return(Obj([proof |-> rq.out.val,
                               transactionHash |-> vf.out.val,
                               success |-> Bool(TRUE)]))

\* a workflow on the path p.json ended after both steps had succeeded
WorkflowSuccessReached ==
  /\ wf.pc = "done"
  /\ wf.proofPath = BarePath
  /\ rq.out.kind = "return"
  /\ vf.out = Return(TxHash)
  /\ wf.out.val.f.success = Bool(TRUE)
  /\ wf.out.val.f.proof = rq.settled.val

\* the call a command line ran has failed
OperationFailed ==
  CASE cli.call = "requestProof" -> rq.out.kind = "throw"
    [] cli.call = "verifyProof" -> vf.out.kind = "throw"
    [] cli.call = "runCompleteWorkflow" ->
         wf.out.val.f.success = Bool(FALSE)

\* C19: every command line that ran an operation (main of requestProof.js,
\* main of verifyProof.js, main of index.js with a request, verify or
\* workflow command) ends with a status that is not 0 when the operation
\* failed and with status 0 when it succeeded.
ExitStatusTellsFailure ==
  (cli.pc = "exited" /\ cli.call # "none")
    => (cli.status = 0 <=> ~OperationFailed)

\* the first segment of the message of each stage of verifyProof
StagePrefixes ==
  {"Failed to create Stellar wallet: ", "Failed to load proof: ",
   "Failed to prepare proof data: ", "Failed to submit transaction: "}

\* C20: every failure of verifyProof carries the prefix of the stage that
\* failed followed by the message of its cause, and the prefix of the
\* submission is used for an error of the network only.
FailuresNameTheirStage ==
  (vf.pc = "done" /\ vf.out.kind = "throw")
    => /\ vf.out.msg[1] \in StagePrefixes
       /\ Len(vf.out.msg) >= 2
       /\ (vf.out.msg[1] = "Failed to submit transaction: ")
            => Tail(vf.out.msg) = <<RpcError>>

\* the proof file verifyProof reads, NoFile when there is none
ProofFile ==
  IF vf.proofPath.t = "string" /\ vf.proofPath.s \in DOMAIN files
  THEN files[vf.proofPath.s]
  ELSE NoFile

\* the signatures member of the proof file is a non-empty array
SignaturesNonEmptyArray ==
  /\ ProofFile.kind = "json"
  /\ ProofFile.value.t = "object"
  /\ Field(ProofFile.value, "signatures").t = "array"
  /\ Len(Field(ProofFile.value, "signatures").a) > 0

\* verifyProof has run loadProof: it got past the network name and, in the
\* single-network definition, past the wallet
LoadProofRan ==
  /\ vf.pc \notin {"idle", "called"}
  /\ vf.network.t = "string"
  /\ ~(vf.pc = "done" /\ vf.out.kind = "throw"
         /\ vf.out.msg[1] = "Failed to create Stellar wallet: ")

LoadFailure == vf.pc = "done" /\ vf.out.kind = "throw"
                 /\ vf.out.msg[1] = "Failed to load proof: "

\* C21: loadProof fails with the proof-not-found error when the file is
\* absent and with a malformed-proof error when the content is not JSON or
\* its signatures member is not a non-empty array (missing, empty, or a
\* value that is not an array, such as a string); in all these cases
\* transformForOnchain is not called.
LoadProofRejectsMalformed ==
  (LoadProofRan /\ ~SignaturesNonEmptyArray)
    => /\ LoadFailure
       /\ (ProofFile = NoFile)
            <=> (vf.out.msg[2] = "Proof file not found: ")
       /\ ~Occurred("transformForOnchain")

\* C22: getRecId of a string of fewer than 2 characters, the empty string
\* included, fails with the too-short error; the valid-string error is given
\* for input that is not a string only.
GetRecIdShortIsTooShort ==
  (op = "getRecId")
    => /\ (arg.t = "string" /\ Len(arg.s) < MinRecIdLen)
            => result = Throw(<<"Signature too short to contain recovery ID">>)
       /\ (result = Throw(<<"Signature must be a valid string">>))
            => arg.t # "string"

\* the calls of requestProof and verifyProof that leave the process
ExternalCalls ==
  {"zkFetch", "writeFileSync", "readFileSync", "account lookup",
   "prepareTransaction", "sendTransaction"}

\* the positions of a log l where step e was taken
EventsIn(l, e) == {i \in DOMAIN l : l[i].e = e}

\* no external call is added to the log by the step
NoNewCall == \A e \in ExternalCalls : EventsIn(log', e) = EventsIn(log, e)

\* every external call was made at most once
CalledAtMostOnce == \A e \in ExternalCalls : Cardinality(Events(e)) <= 1

\* a write follows a zkFetch that returned; sendTransaction follows the
\* loading of the proof, the account lookup and prepareTransaction
CalledAfterSuccess ==
  /\ Occurred("writeFileSync")
       => rq.pc = "done" /\ rq.settled.kind = "return"
  /\ \A s \in Events("sendTransaction") :
       \A e \in {"readFileSync", "transformForOnchain", "account lookup",
                  "build", "prepareTransaction"} :
         \E i \in Events(e) : i < s

\* C23: in one requestProof or verifyProof every external call (zkFetch,
\* file write, file read, account lookup, prepareTransaction,
\* sendTransaction) is made at most once, and a failed step is the last
\* one: nothing is written when zkFetch fails, sendTransaction is not called
\* when loading, preparation, the account lookup or prepareTransaction
\* fails, and a call that has ended makes no further external call.
NoRetryNoLaterStep ==
  /\ [](CalledAtMostOnce /\ CalledAfterSuccess)
  /\ [][/\ (rq.pc = "zkFetch" /\ rq'.settled.kind = "throw")
             => (files' = files /\ rq'.pc = "done" /\ rq'.out.kind = "throw"
                   /\ NoNewCall)
        /\ (vf.pc \in {"called", "account", "prepare", "send"}
              /\ vf'.pc = "done" /\ vf'.out.kind = "throw")
             => (EventsIn(log', "sendTransaction") = {}
                   \/ vf.pc = "send")
                  /\ (vf.pc # "called" => NoNewCall)
        /\ (rq.pc = "done" /\ vf.pc \in {"done", "idle"}) => NoNewCall
        /\ (vf.pc = "done") => NoNewCall]_vars

\* prepareTransaction was rejected and nothing was signed or sent
PrepareRejectedReached ==
  /\ vf.pc = "done"
  /\ vf.out = Throw(<<"Failed to submit transaction: ", RpcError>>)
  /\ Occurred("prepareTransaction")
  /\ ~Occurred("sign")
  /\ ~Occurred("sendTransaction")

PrepareOps == {"prepareProofData", "prepareProofData/keccak throws"}

----------------------------------------------------------------------------
(* Two calls of requestProof on one output path, interleaved at the await  *)
(* of zkFetch                                                              *)

Racers == {1, 2}

RaceTypes == {Stellar, Goal}

RacePaths == {BarePath, PROOF_FILE}

\* rq holds the two calls
InitRace ==
  /\ pc = "race"
  /\ op = "none"
  /\ arg = Undefined
  /\ result = [kind |-> "none"]
  /\ keccakCalls = <<>>
  /\ log = <<>>
  /\ entry = [kind |-> "two requestProof"]
  /\ files \in {<<>>, WriteFile(<<>>, BarePath.s, NotJson)}
  /\ \E outputPath \in RacePaths, t1 \in RaceTypes, t2 \in RaceTypes :
       rq = <<RequestCalled(outputPath, t1), RequestCalled(outputPath, t2)>>
  /\ vf = Idle
  /\ wf = Idle
  /\ cli = Idle

\* the events of a call, marked with the call that made them
By(i, events) == [k \in DOMAIN events |-> [call |-> i, event |-> events[k]]]

\* call i of requestProof runs up to its await of zkFetch
RaceStart(i) ==
  /\ pc = "race"
  /\ rq[i].pc = "called"
  /\ LET outputPath == Default(rq[i].outputPath, PROOF_FILE)
         proofType == Default(rq[i].proofType, Stellar)
         valid == validateOutputPath(outputPath, files)
         done(out) == [pc |-> "done", outputPath |-> outputPath,
                       proofType |-> proofType, out |-> out]
     IN
     IF valid.kind = "throw"
     THEN rq' = [rq EXCEPT ![i] = done(valid)] /\ log' = log
     ELSE \E constructorThrows \in BOOLEAN :
       LET reclaimClient == createReclaimClient(constructorThrows)
           created == log \o By(i, <<[e |-> "new ReclaimClient"]>>)
       IN
       IF reclaimClient.kind = "throw"
       THEN rq' = [rq EXCEPT ![i] = done(reclaimClient)] /\ log' = created
       ELSE IF proofType \in SupportedTypes
       THEN /\ rq' = [rq EXCEPT ![i] = [pc |-> "zkFetch",
                                        outputPath |-> outputPath,
                                        proofType |-> proofType]]
            /\ log' = created
                        \o By(i, <<[e |-> "zkFetch",
                                    call |-> Generate(proofType)]>>)
       ELSE /\ rq' = [rq EXCEPT ![i] = done(UnknownProofType(proofType))]
            /\ log' = created
  /\ UNCHANGED <<pc, op, arg, result, keccakCalls, entry, files, vf, wf, cli>>

\* zkFetch of call i has settled: the call goes on to its end
RaceSettles(i) ==
  /\ pc = "race"
  /\ rq[i].pc = "zkFetch"
  /\ \E settled \in ZkFetchSettled, mode \in WriteModes :
       LET proof == Generated(Generate(rq[i].proofType), settled)
           done(out) == [pc |-> "done", outputPath |-> rq[i].outputPath,
                         proofType |-> rq[i].proofType, settled |-> settled,
                         out |-> out]
       IN
       IF proof.kind = "throw"
       THEN /\ mode = "written"
            /\ rq' = [rq EXCEPT ![i] = done(proof)]
            /\ log' = log \o By(i, <<[e |-> "zkFetch settled"]>>)
            /\ files' = files
       ELSE LET saved == saveProof(proof.val, rq[i].outputPath, files, mode)
            IN
            /\ rq' = [rq EXCEPT ![i] =
                        done(IF saved.out.kind = "throw" THEN saved.out
                             ELSE proof)]
            /\ log' = log \o By(i, <<[e |-> "zkFetch settled"]>>
                                     \o saved.events)
            /\ files' = saved.files
  /\ UNCHANGED <<pc, op, arg, result, keccakCalls, entry, vf, wf, cli>>

NextRace ==
  \/ \E i \in Racers : RaceStart(i)
  \/ \E i \in Racers : RaceSettles(i)

SpecRace == InitRace /\ [][NextRace]_vars

\* the positions of the log where call i wrote the file
WritesOf(i) ==
  {k \in DOMAIN log : log[k].call = i /\ log[k].event.e = "writeFileSync"}

BothReturned ==
  \A i \in Racers : rq[i].pc = "done" /\ rq[i].out.kind = "return"

\* the call whose write is the last one of the log
LastWriter ==
  CHOOSE i \in Racers :
    \E k \in WritesOf(i) : \A j \in Racers : \A m \in WritesOf(j) : m <= k

\* C25: when two calls of requestProof on the same output path, interleaved
\* at their await of zkFetch, have both returned, the file holds the
\* complete JSON text of the attestation of the call that wrote last, not a
\* mixture of the two, and each call has returned its own attestation.
LastWriteWins ==
  BothReturned
    => /\ \A i \in Racers : Cardinality(WritesOf(i)) = 1
       /\ files[rq[1].outputPath.s] = JsonText(rq[LastWriter].settled.val)
       /\ \A i \in Racers : rq[i].out.val = rq[i].settled.val

\* both calls were suspended at zkFetch together, call 2 settled and wrote
\* first, and the file holds the other attestation, which call 1 wrote
SecondWroteFirstReached ==
  /\ BothReturned
  /\ rq[1].settled # rq[2].settled
  /\ \E k \in DOMAIN log :
       /\ log[k].call = 2 /\ log[k].event.e = "zkFetch settled"
       /\ \A m \in DOMAIN log : log[m].event.e = "zkFetch" => m < k
       /\ \A m \in WritesOf(1) : k < m
  /\ files[rq[1].outputPath.s] = JsonText(rq[1].settled.val)

\* the network the transaction of a network-aware verifyProof belongs to
OnMainnet == vf.network = Mainnet

\* C26: the network-aware verifyProof(proofPath, network) takes the contract
\* id, the RPC URL, the explorer link, the base fee and the network
\* passphrase all from the mainnet configuration when network is exactly
\* 'mainnet' and all from the testnet configuration for every other value:
\* no transaction has the contract of one network and the passphrase or the
\* RPC endpoint of the other.
NetworkConfigNotMixed ==
  (vf.pc \notin {"idle", "called"} /\ vf.def = "network-aware")
    => /\ \A i \in Events("account lookup") :
            log[i].url = IF OnMainnet THEN "https://mainnet.sorobanrpc.com"
                         ELSE "https://soroban-testnet.stellar.org"
       /\ \A i \in Events("build") :
            /\ log[i].contract =
                 IF OnMainnet
                 THEN "CD4M2KHW3ESOV3RUT7KCTC6BX37PIL2Z3BEK47IA74KIMFIFUI3JJDMO"
                 ELSE "CA3EMXR6JOOTNP44T3OAJFMMMGKRRETDJKBLZP2RU3SIY4SDFAH54DU5"
            /\ log[i].networkPassphrase =
                 IF OnMainnet
                 THEN "Public Global Stellar Network ; September 2015"
                 ELSE "Test SDF Network ; September 2015"
            /\ log[i].fee = "100"
       /\ VerifySucceeded
            => vf.link =
                 <<IF OnMainnet
                   THEN "https://stellar.expert/explorer/public/tx/"
                   ELSE "https://stellar.expert/explorer/testnet/tx/">>
                   \o vf.out.val.s

\* a transaction was sent with the mainnet passphrase and its link is the
\* one of the mainnet explorer
MainnetConfigReached ==
  /\ VerifySucceeded
  /\ vf.def = "network-aware"
  /\ OnMainnet
  /\ \E i \in Events("build") :
       log[i].networkPassphrase = MAINNET_DETAILS.networkPassphrase
  /\ vf.link[1] = STELLAR_MAINNET.EXPLORER_LINK

\* the payload verifyProof holds cannot be passed to the contract: its
\* digest is not of 32 bytes or its signature has fewer than 64
PayloadTooShort ==
  \/ Len(vf.proofData.f.message.b) # 32
  \/ Len(vf.proofData.f.signature.b) < 64

\* C27: in the network-aware verifyProof every contract call that is built
\* has a message of exactly 32 bytes and a signature of exactly 64; with a
\* payload whose digest is not of 32 bytes or whose signature is shorter
\* than 64, verifyProof fails and neither prepareTransaction nor
\* sendTransaction is called.
ContractCallHasFixedSizes ==
  /\ [](vf.pc \notin {"idle", "called"} /\ vf.def = "network-aware"
          => /\ \A i \in Events("build") :
                  /\ Len(log[i].args[1].b) = 32
                  /\ Len(log[i].args[2].b) = 64
             /\ \A i \in Events("prepareTransaction")
                           \cup Events("sendTransaction") :
                  \E b \in Events("build") : b < i)
  /\ [][(vf.pc = "account" /\ vf.def = "network-aware" /\ PayloadTooShort)
          => /\ vf'.pc = "done"
             /\ vf'.out.kind = "throw"
             /\ EventsIn(log', "build") = {}
             /\ EventsIn(log', "prepareTransaction") = {}
             /\ EventsIn(log', "sendTransaction") = {}]_vars

\* a payload with an empty signature was refused after the account lookup
ShortPayloadRefusedReached ==
  /\ vf.pc = "done"
  /\ vf.def = "network-aware"
  /\ vf.out = Throw(<<"Failed to submit transaction: ", "Expected ", "6", "4",
                      " bytes, got ", "0">>)
  /\ Occurred("account lookup")
  /\ ~Occurred("prepareTransaction")

----------------------------------------------------------------------------
(* utils.js, the original definitions, next to the validating ones         *)

\* the TypeError of a method call on a value that has no such method
NotAFunction(name) == Throw(<<"signature.", name, " is not a function">>)

\* getRecId(signature), original definition
getRecIdOriginal(signature) ==
  IF signature.t \in {"undefined", "null"} THEN Get(signature, "slice")
  ELSE IF signature.t # "string" THEN NotAFunction("slice")
  ELSE LET rec == SliceLast(signature.s, 2)
           parsed == ParseIntHex(rec)
       IN Return(IF parsed.t = "NaN" THEN NaN
                 ELSE Num(parsed.n - RecIdOffset))

\* formatSignature(signature), original definition: substring(1, 130)
\* applied twice
formatSignatureOriginal(signature) ==
  IF signature.t \in {"undefined", "null"} THEN Get(signature, "substring")
  ELSE IF signature.t # "string" THEN NotAFunction("substring")
  ELSE Return(Str(Substring(Substring(signature.s, 1, 130), 1, 130)))

\* getSerializedClaim(proof), original definition
getSerializedClaimOriginal(proof) ==
  LET signedClaim == Get(proof, "signedClaim") IN
  IF signedClaim.kind = "throw" THEN signedClaim
  ELSE LET claim == Get(signedClaim.val, "claim") IN
  IF claim.kind = "throw" THEN claim
  ELSE IF Get(claim.val, "identifier").kind = "throw"
  THEN Get(claim.val, "identifier")
  ELSE Return(Str(ToStr(Field(claim.val, "identifier")) \o <<"\n">>
                  \o ToStr(Field(claim.val, "owner")) \o <<"\n">>
                  \o ToStr(Field(claim.val, "timestampS")) \o <<"\n">>
                  \o ToStr(Field(claim.val, "epoch"))))

\* getHash(serializedClaim), original definition: nothing is caught
getHashOriginal(serializedClaim, keccakThrows) ==
  IF serializedClaim.t \in {"undefined", "null"}
  THEN [out |-> Get(serializedClaim, "length"), calls |-> <<>>]
  ELSE LET message == EthPrefix \o ToStr(LengthOf(serializedClaim))
                        \o ToStr(serializedClaim)
           bytes == Utf8(message)
       IN IF keccakThrows
          THEN [out |-> Throw(<<KeccakError>>), calls |-> <<bytes>>]
          ELSE LET digest == Keccak256(bytes)
                   cleanDigest == Substring(digest, 2, Len(digest))
               IN [out |-> Return(Buf(HexDecode(cleanDigest))),
                   calls |-> <<bytes>>]

\* one input is given to both definitions of one function
InitBoth ==
  /\ pc = "both"
  /\ op = "none"
  /\ result = [kind |-> "none"]
  /\ keccakCalls = <<>>
  /\ \/ arg \in SigArgs
     \/ arg \in TextArgs
     \/ arg \in ProofArgs
  /\ NoEntryPoint

BothGetRecId ==
  /\ pc = "both"
  /\ pc' = "compared"
  /\ op' = "getRecId"
  /\ result' = [validating |-> getRecId(arg),
                original |-> getRecIdOriginal(arg)]
  /\ UNCHANGED <<arg, keccakCalls>>
  /\ UNCHANGED appVars

BothFormatSignature ==
  /\ pc = "both"
  /\ pc' = "compared"
  /\ op' = "formatSignature"
  /\ result' = [validating |-> formatSignature(arg),
                original |-> formatSignatureOriginal(arg)]
  /\ UNCHANGED <<arg, keccakCalls>>
  /\ UNCHANGED appVars

BothGetSerializedClaim ==
  /\ pc = "both"
  /\ pc' = "compared"
  /\ op' = "getSerializedClaim"
  /\ result' = [validating |-> getSerializedClaim(arg),
                original |-> getSerializedClaimOriginal(arg)]
  /\ UNCHANGED <<arg, keccakCalls>>
  /\ UNCHANGED appVars

BothGetHash ==
  /\ pc = "both"
  /\ \E keccakThrows \in BOOLEAN :
       /\ op' = IF keccakThrows THEN "getHash/keccak throws" ELSE "getHash"
       /\ result' = [validating |-> getHash(arg, keccakThrows).out,
                     original |-> getHashOriginal(arg, keccakThrows).out]
  /\ pc' = "compared"
  /\ UNCHANGED <<arg, keccakCalls>>
  /\ UNCHANGED appVars

NextBoth ==
  \/ BothGetRecId
  \/ BothFormatSignature
  \/ BothGetSerializedClaim
  \/ BothGetHash

SpecBoth == InitBoth /\ [][NextBoth]_vars

\* C28: on every input that the validating definition of getRecId,
\* formatSignature, getSerializedClaim or getHash accepts, it returns the
\* value the original definition of the same name returns.
ValidationOnlyRejects ==
  (pc = "compared" /\ result.validating.kind = "return")
    => result.original = result.validating

\* C29: when every external call settles, every call of requestProof,
\* verifyProof and runCompleteWorkflow reaches its end, a returned result
\* or a raised error, and stays there; no external call is repeated on the
\* way.
EveryCallEnds ==
  /\ (rq.pc = "called") ~> (rq.pc = "done")
  /\ (vf.pc = "called") ~> (vf.pc = "done")
  /\ (wf.pc = "called") ~> (wf.pc = "done")
  /\ [][/\ rq.pc = "done" => rq' = rq
        /\ vf.pc = "done" => vf' = vf
        /\ wf.pc = "done" => wf' = wf]_vars
  /\ [](\A e \in ExternalCalls : Cardinality(Events(e)) <= 1)

\* a workflow has ended after its verification had failed at sendTransaction
WorkflowEndedReached ==
  /\ wf.pc = "done"
  /\ rq.pc = "done"
  /\ vf.pc = "done"
  /\ Occurred("sendTransaction")
  /\ vf.out.kind = "throw"
  /\ wf.out.val.f.success = Bool(FALSE)


\* the claim data of the proof file verifyProof reads
ProofFileClaimData == Field(ProofFile.value, "claimData")

\* v is a positive integer
PositiveInteger(v) == v.t = "number" /\ v.n > 0

\* the attestation of the proof file satisfies the invariants of the data
\* model: signatures is not empty, epoch is a positive integer, timestampS
\* is a positive integer at most the allowance ahead of the clock
DataModelInvariants ==
  /\ SignaturesNonEmptyArray
  /\ PositiveInteger(Field(ProofFileClaimData, "epoch"))
  /\ PositiveInteger(Field(ProofFileClaimData, "timestampS"))
  /\ Field(ProofFileClaimData, "timestampS").n <= NowInSeconds + SkewAllowance

\* C30: sendTransaction is called only for an attestation that satisfies the
\* invariants of the data model; any other one is rejected before.
SubmittedAttestationsValid ==
  Occurred("sendTransaction") => DataModelInvariants

====
